---- MODULE Spec2Model ----
(***************************************************************************)
(* Model of the OpenPH solver plugin scheduler: SolverRegistry (plugin     *)
(* descriptors and the priority-tiered topological planner) and            *)
(* SolverManager (instantiation, batch execution, history).                *)
(*                                                                         *)
(* Python sets of strings iterate in hash order, which differs from one    *)
(* process to the next; every call that iterates over a set is therefore   *)
(* driven by an arbitrary permutation h of the names (the hash order).     *)
(***************************************************************************)
EXTENDS Integers, Sequences, FiniteSets, TLC

VARIABLES
    solvers,            \* SolverRegistry._solvers: insertion-ordered dict, as a sequence of SolverInfo
    execution_order,    \* SolverRegistry._execution_order: {} is None, {o} is the cached list o
    discovered,         \* SolverRegistry._discovered
    solver_instances,   \* SolverManager._solver_instances: names with a cached instance
    execution_history,  \* SolverManager._execution_history
    factory_log,        \* per name, the outcomes of its constructor since the cache was last cleared
    call,               \* the batch call in progress (or the last one finished)
    result,             \* what the last completed public call returned or raised
    succeeded,          \* whether a discover_solvers call on this registry has returned without raising
    other               \* a second SolverManager, the one the caller is not calling at the moment

vars == <<solvers, execution_order, discovered, solver_instances,
          execution_history, factory_log, call, result, succeeded, other>>

----------------------------------------------------------------------------
(* Bounds of the model. *)

\* Priority tiers the enumerated descriptor sets draw from: 1..MaxTier.
MaxTier == 2

\* Longest execution history a batch may build up.
MaxHistory == 4

\* Longest list of names execute_subset is asked for.
MaxRequest == 2

\* Calls a caller of two managers completes before its last one.
MaxTwoCalls == 3

\* Times constructors of plugins may raise between two clearings of the
\* instance cache.
MaxFactoryFailures == 1

\* Plugin names. A descriptor set registers a prefix of NameSeq; the names
\* left over are the unregistered names a depends_on may mention.
NameSeq == <<"a", "b", "c">>

Names == {NameSeq[i] : i \in 1..Len(NameSeq)}

\* Messages a plugin's solve may raise with.
Messages == {"m1", "m2"}

\* What a plugin's validate_dependencies returns: a list of error messages,
\* empty when its dependencies are satisfied.
Reports == {<<>>, <<"m1">>}

\* The object the caller passes to execute_solver, execute_all and
\* execute_subset as model.
CallerModel == "model"

\* The plugins whose solve() ends with "return self" (the solver object, named
\* here by the plugin's name); the solve() of the others returns the object
\* it was given.
ReturnsSelf == {"b"}

----------------------------------------------------------------------------
(* SolverPriority *)

FOUNDATION == 1
DEMAND == 2
SYSTEMS == 3
AGGREGATION == 4
ANALYSIS == 5

SolverPriority == {FOUNDATION, DEMAND, SYSTEMS, AGGREGATION, ANALYSIS}

----------------------------------------------------------------------------
(* Helpers on sequences and sets. *)

Range(s) == {s[i] : i \in 1..Len(s)}

IndexOf(s, x) == CHOOSE i \in 1..Len(s) : s[i] = x

\* Every order in which a set of names may iterate.
SetOrders == {h \in [1..Len(NameSeq) -> Names] : \A i, j \in 1..Len(NameSeq) : h[i] = h[j] => i = j}

\* Iterating over the set S under hash order h.
SetIter(S, h) == SelectSeq(h, LAMBDA x : x \in S)

----------------------------------------------------------------------------
(* Errors and results. *)

\* kind: none | NotDiscovered | UnresolvedDependency | CircularDependency |
\*       KeyError | Instantiation | UnsatisfiedDependencies | Execution |
\*       AggregateExecution | Load | Protocol | ValueError | AttributeError
Error(kind, solver, detail, path, failures) ==
    [kind |-> kind, solver |-> solver, detail |-> detail, path |-> path, failures |-> failures]

NoError == Error("none", "", "", <<>>, <<>>)

Result(op, err, value) == [op |-> op, err |-> err, value |-> value]

----------------------------------------------------------------------------
(* SolverInfo and the registry's dict. *)

SolverInfo(name, priority, depends_on) ==
    [name |-> name, priority |-> priority, depends_on |-> depends_on]

RegisteredNames(sv) == {sv[i].name : i \in 1..Len(sv)}

Info(sv, n) == sv[CHOOSE i \in 1..Len(sv) : sv[i].name = n]

----------------------------------------------------------------------------
(* SolverRegistry: planning. *)

\* _validate_all_dependencies: the first (solver, dependency) pair whose
\* dependency is not registered raises; descriptors are visited in dict order,
\* each depends_on in set order.
MissingOf(sv, i, h) ==
    SelectSeq(SetIter(sv[i].depends_on, h), LAMBDA d : d \notin RegisteredNames(sv))

\* A validation that looks at the first registered descriptor only.
ValidateFirstDescriptorOnly(sv, h) ==
    IF Len(sv) = 0 \/ MissingOf(sv, 1, h) = <<>> THEN NoError
    ELSE Error("UnresolvedDependency", sv[1].name, Head(MissingOf(sv, 1, h)), <<>>, <<>>)

\* A validation that walks the descriptors in reverse dict order.
ValidateLastDescriptorFirst(sv, h) ==
    LET bad == {i \in 1..Len(sv) : MissingOf(sv, i, h) # <<>>}
    IN  IF bad = {} THEN NoError
        ELSE LET i == CHOOSE k \in bad : \A m \in bad : k >= m
             IN  Error("UnresolvedDependency", sv[i].name, Head(MissingOf(sv, i, h)),
                       <<>>, <<>>)

ValidateAllDependencies(sv, h) ==
    LET bad == {i \in 1..Len(sv) : MissingOf(sv, i, h) # <<>>}
    IN  IF bad = {} THEN NoError
        ELSE LET i == CHOOSE k \in bad : \A m \in bad : k <= m
             IN  Error("UnresolvedDependency", sv[i].name, Head(MissingOf(sv, i, h)),
                       <<>>, <<>>)

\* A circular-dependency error that reports the revisited solver alone.
CircularErrorRevisitedOnly(visiting, solver_name, h) ==
    Error("CircularDependency", solver_name, "", <<solver_name>>, <<>>)

\* The ValueError of a revisited solver: cycle_path = list(visiting) + [solver_name].
CircularError(visiting, solver_name, h) ==
    Error("CircularDependency", solver_name, "",
          Append(SetIter(visiting, h), solver_name), <<>>)

\* The traversal state shared by the recursive calls.
Traversal(order, processed, visiting, err) ==
    [execution_order |-> order, processed |-> processed, visiting |-> visiting, err |-> err]

RECURSIVE AddSolverToOrder(_, _, _, _)
RECURSIVE AddDependencies(_, _, _, _)

\* The loop over solver_info.depends_on; an exception ends it.
AddDependencies(sv, deps, st, h) ==
    IF deps = <<>> \/ st.err.kind # "none" THEN st
    ELSE AddDependencies(sv, Tail(deps), AddSolverToOrder(sv, Head(deps), st, h), h)

\* A traversal that appends the solver before it descends into its dependencies.
AddSolverToOrderBeforeDependencies(sv, solver_name, st, h) ==
    IF solver_name \in st.processed THEN st
    ELSE IF solver_name \in st.visiting
         THEN [st EXCEPT !.err = CircularError(st.visiting, solver_name, h)]
    ELSE IF solver_name \notin RegisteredNames(sv)
         THEN [st EXCEPT !.err = Error("KeyError", solver_name, "", <<>>, <<>>)]
    ELSE LET s1 == [st EXCEPT !.visiting = @ \cup {solver_name},
                              !.execution_order = Append(@, solver_name)]
             s2 == AddDependencies(sv, SetIter(Info(sv, solver_name).depends_on, h), s1, h)
         IN  IF s2.err.kind # "none" THEN s2
             ELSE [s2 EXCEPT !.visiting = @ \ {solver_name},
                             !.processed = @ \cup {solver_name}]

\* _add_solver_to_order
AddSolverToOrder(sv, solver_name, st, h) ==
    IF solver_name \in st.processed THEN st
    ELSE IF solver_name \in st.visiting
         THEN [st EXCEPT !.err = CircularError(st.visiting, solver_name, h)]
    ELSE IF solver_name \notin RegisteredNames(sv)
         THEN [st EXCEPT !.err = Error("KeyError", solver_name, "", <<>>, <<>>)]
    ELSE LET s1 == [st EXCEPT !.visiting = @ \cup {solver_name}]
             s2 == AddDependencies(sv, SetIter(Info(sv, solver_name).depends_on, h), s1, h)
         IN  IF s2.err.kind # "none" THEN s2
             ELSE [s2 EXCEPT !.visiting = @ \ {solver_name},
                             !.processed = @ \cup {solver_name},
                             !.execution_order = Append(@, solver_name)]

\* priority_groups[priority]: the names of one tier, in dict order.
PriorityGroup(sv, priority) ==
    LET at == SelectSeq(sv, LAMBDA d : d.priority = priority)
    IN  [i \in 1..Len(at) |-> at[i].name]

\* The names the tier loop starts a traversal from, tiers ascending.
RECURSIVE TierRoots(_, _)
TierRoots(sv, priority) ==
    IF priority \notin SolverPriority THEN <<>>
    ELSE PriorityGroup(sv, priority) \o TierRoots(sv, priority + 1)

\* The two nested loops of _calculate_execution_order; each top-level call
\* starts with visiting=set().
RECURSIVE AddRoots(_, _, _, _)
AddRoots(sv, roots, st, h) ==
    IF roots = <<>> \/ st.err.kind # "none" THEN st
    ELSE AddRoots(sv, Tail(roots),
                  AddSolverToOrder(sv, Head(roots), [st EXCEPT !.visiting = {}], h),
                  h)

\* A planner that traverses first and validates the dependencies afterwards.
CalculateExecutionOrderTraversalFirst(sv, disc, h) ==
    IF ~disc THEN Traversal(<<>>, {}, {}, Error("NotDiscovered", "", "", <<>>, <<>>))
    ELSE LET t == AddRoots(sv, TierRoots(sv, FOUNDATION), Traversal(<<>>, {}, {}, NoError), h)
             v == ValidateAllDependencies(sv, h)
         IN  IF t.err.kind # "none" THEN t
             ELSE IF v.kind # "none" THEN Traversal(<<>>, {}, {}, v)
             ELSE t

\* _calculate_execution_order: the error it raises and the order it builds.
CalculateExecutionOrder(sv, disc, h) ==
    IF ~disc THEN Traversal(<<>>, {}, {}, Error("NotDiscovered", "", "", <<>>, <<>>))
    ELSE LET v == ValidateAllDependencies(sv, h)
         IN  IF v.kind # "none" THEN Traversal(<<>>, {}, {}, v)
             ELSE AddRoots(sv, TierRoots(sv, FOUNDATION), Traversal(<<>>, {}, {}, NoError), h)

\* A get_execution_order that caches and returns what the planner had built
\* when it failed.
GetExecutionOrderOutcomePartial(sv, disc, cache, h) ==
    IF ~disc
    THEN [err |-> Error("NotDiscovered", "", "", <<>>, <<>>), value |-> <<>>, cache |-> cache]
    ELSE IF cache = {}
    THEN LET t == CalculateExecutionOrder(sv, disc, h)
         IN  [err |-> NoError, value |-> t.execution_order, cache |-> {t.execution_order}]
    ELSE [err |-> NoError, value |-> CHOOSE o \in cache : TRUE, cache |-> cache]

\* get_execution_order: the error it raises, the value it returns and the
\* cache it leaves.
GetExecutionOrderOutcome(sv, disc, cache, h) ==
    IF ~disc
    THEN [err |-> Error("NotDiscovered", "", "", <<>>, <<>>), value |-> <<>>, cache |-> cache]
    ELSE IF cache = {}
    THEN LET t == CalculateExecutionOrder(sv, disc, h)
         IN  IF t.err.kind # "none"
             THEN [err |-> t.err, value |-> <<>>, cache |-> cache]
             ELSE [err |-> NoError, value |-> t.execution_order, cache |-> {t.execution_order}]
    ELSE [err |-> NoError, value |-> CHOOSE o \in cache : TRUE, cache |-> cache]

----------------------------------------------------------------------------
(* The planner on its own: a registry whose descriptors were registered by  *)
(* hand (registry._solvers[name] = info; registry._discovered = True), and  *)
(* the two calls that plan.                                                 *)

\* The descriptor sets enumerated: the first k names registered in order,
\* any tier up to MaxTier, any depends_on over the names.
DescriptorSets ==
    UNION {{sv \in [1..k -> [name : Names, priority : 1..MaxTier, depends_on : SUBSET Names]] :
               \A i \in 1..k : sv[i].name = NameSeq[i]} : k \in 0..Len(NameSeq)}

\* The locals of a _calculate_execution_order call that has not begun: roots
\* is the names the two loops have yet to start a traversal from, stack the
\* _add_solver_to_order calls in progress (each with the dependencies its for
\* loop has yet to visit), execution_order, processed and visiting the three
\* collections the calls share, err what was raised, h the hash order of the
\* process.
NoTraversal ==
    [roots |-> <<>>, stack |-> <<>>, execution_order |-> <<>>, processed |-> {},
     visiting |-> {}, err |-> NoError, h |-> NameSeq]

\* The batch call record: pc is idle | running | done; plan, idx, errors and
\* stop are the locals of the call; hist0 is the history when it began;
\* attempted lists the solvers execute_solver was called for, invoked those
\* whose solve() was called, failed those whose solve() raised.
\* request and respect are the arguments of execute_subset; fresh tells that
\* the call began with the manager as reset() leaves it; validated and report tell whether
\* execute_solver asked the plugin's validate_dependencies and what it
\* answered; raised lists the messages solve() raised with. model is the
\* local variable model of the call and received lists the objects solve()
\* was called with. names0 is the registered names when discover_solvers
\* began, and for discover_solvers request lists the descriptors its
\* candidates declare. shared tells whether the list a getter returned is the stored
\* list itself. attrs lists, for registry.discover_solvers, the protocol
\* attributes each candidate class has. traversal is the locals of a
\* _calculate_execution_order call in progress.
NoCall ==
    [pc |-> "idle", op |-> "", stop |-> FALSE, plan |-> <<>>, idx |-> 1, errors |-> <<>>,
     hist0 |-> <<>>, attempted |-> <<>>, invoked |-> <<>>, failed |-> <<>>,
     request |-> <<>>, respect |-> FALSE, fresh |-> FALSE,
     validated |-> FALSE, report |-> <<>>, raised |-> <<>>,
     model |-> CallerModel, received |-> <<>>, names0 |-> <<>>, shared |-> FALSE,
     attrs |-> <<>>, traversal |-> NoTraversal]

\* No constructor has been called since the instance cache was last cleared.
NoFactoryCalls == [n \in Names |-> <<>>]

\* A SolverManager(registry) that shares one registry with every other manager.
ManagerRegistryOfAll(given) == TRUE

\* SolverManager.__init__: self.registry is the registry given, else a new
\* SolverRegistry(). given tells whether the caller passed the registry of
\* the first manager; the value tells whether the two managers hold one
\* registry object.
ManagerRegistry(given) == given

\* The second manager after SolverManager.__init__: its own (or the shared)
\* registry, no instances, no history. given is the constructor's argument,
\* shared what __init__ made of it; the registry fields are those of its own
\* registry and are not used when the registry is shared; calls counts the
\* calls a caller of two managers has completed.
NewManager(given) ==
    [given |-> given, shared |-> ManagerRegistry(given),
     solvers |-> <<>>, execution_order |-> {}, discovered |-> FALSE, succeeded |-> FALSE,
     solver_instances |-> {}, execution_history |-> <<>>, factory_log |-> NoFactoryCalls,
     calls |-> 0]

InitPlan ==
    /\ solvers \in DescriptorSets
    /\ execution_order = {}
    /\ discovered = TRUE
    /\ solver_instances = {}
    /\ execution_history = <<>>
    /\ factory_log = NoFactoryCalls
    /\ call = NoCall
    /\ result = Result("init", NoError, <<>>)
    /\ succeeded = FALSE
    /\ other = NewManager(FALSE)

\* registry._calculate_execution_order()
Calculate ==
    \E h \in SetOrders :
        LET t == CalculateExecutionOrder(solvers, discovered, h)
        IN  /\ execution_order' = IF t.err.kind = "none" THEN {t.execution_order}
                                  ELSE execution_order
            /\ result' = Result("calculate", t.err, <<>>)
            /\ UNCHANGED <<solvers, discovered, solver_instances, execution_history,
                           factory_log, call, succeeded, other>>

\* registry.get_execution_order()
GetExecutionOrder ==
    \E h \in SetOrders :
        LET g == GetExecutionOrderOutcome(solvers, discovered, execution_order, h)
        IN  /\ execution_order' = g.cache
            /\ result' = Result("get_execution_order", g.err, g.value)
            /\ UNCHANGED <<solvers, discovered, solver_instances, execution_history,
                           factory_log, call, succeeded, other>>

NextPlan == Calculate \/ GetExecutionOrder

SpecPlan == InitPlan /\ [][NextPlan]_vars

----------------------------------------------------------------------------
(* SolverRegistry: discovery. *)

\* The registration loop of discover_solvers: _solvers[name] = info, a name
\* registered twice keeps its first place in the dict and takes the new info.
RECURSIVE Register(_, _)
Register(sv, source) ==
    IF source = <<>> THEN sv
    ELSE LET info == Head(source)
             next == IF info.name \in RegisteredNames(sv)
                     THEN [i \in 1..Len(sv) |-> IF sv[i].name = info.name THEN info ELSE sv[i]]
                     ELSE Append(sv, info)
         IN  Register(next, Tail(source))

\* required_attrs of _validate_solver_protocol, in the order of the list.
RequiredAttrs ==
    <<"solver_name", "solver_version", "solver_priority", "depends_on", "solve",
      "validate_dependencies">>

\* A validation that reports the first missing attribute only.
ValidateSolverProtocolFirstMissing(attrs) ==
    LET missing_attrs == SelectSeq(RequiredAttrs, LAMBDA attr : attr \notin attrs)
    IN  IF missing_attrs = <<>> THEN NoError
        ELSE Error("Protocol", "", "", <<Head(missing_attrs)>>, <<>>)

\* _validate_solver_protocol(solver_class): attrs is the attributes
\* hasattr(solver_class, attr) finds; the TypeError lists every required
\* attribute that is missing, in the order of required_attrs.
ValidateSolverProtocol(attrs) ==
    LET missing_attrs == SelectSeq(RequiredAttrs, LAMBDA attr : attr \notin attrs)
    IN  IF missing_attrs = <<>> THEN NoError
        ELSE Error("Protocol", "", "", missing_attrs, <<>>)

\* An entry-point group: eps is the descriptors its candidates declare, in the
\* order entry_points() yields them (a candidate's entry point carries the
\* name of its descriptor); broken is the positions of the candidates whose
\* ep.load() raises; attrs[i] is the protocol attributes the class of
\* candidate i has, here all of them.
Group(eps, broken) ==
    [eps |-> eps, broken |-> broken,
     attrs |-> [i \in 1..Len(eps) |-> Range(RequiredAttrs)]]

\* An entry-point group whose candidates all load and have the attributes
\* attrs gives them.
Candidates(eps, attrs) == [eps |-> eps, broken |-> {}, attrs |-> attrs]

\* The positions of the candidates the loop of discover_solvers raises at:
\* ep.load() raises or _validate_solver_protocol does.
Failing(group) ==
    group.broken
    \cup {i \in 1..Len(group.eps) : ValidateSolverProtocol(group.attrs[i]).kind # "none"}

\* The candidates the loop registers before it reaches the first one that
\* raises.
Loaded(group) ==
    IF Failing(group) = {} THEN group.eps
    ELSE SubSeq(group.eps, 1,
                (CHOOSE i \in Failing(group) : \A j \in Failing(group) : i <= j) - 1)

\* raise RuntimeError(f"Failed to load solver from entry point '{ep.name}':
\* {e}") from e, for candidate i: the error names the entry point; when e is
\* the TypeError of the protocol validation, detail tells so and path is the
\* missing attributes its message lists.
LoadError(group, i) ==
    IF i \in group.broken THEN Error("Load", group.eps[i].name, "", <<>>, <<>>)
    ELSE Error("Load", group.eps[i].name, "TypeError",
               ValidateSolverProtocol(group.attrs[i]).path, <<>>)

\* A discover_solvers that returns once the candidates are registered.
RegistryDiscoverWithoutPlan(group, h) ==
    LET sv == Register(<<>>, Loaded(group))
    IN  IF Failing(group) # {}
        THEN [solvers |-> sv, discovered |-> FALSE, execution_order |-> {},
              err |-> LoadError(group, Len(Loaded(group)) + 1)]
        ELSE [solvers |-> sv, discovered |-> TRUE, execution_order |-> {}, err |-> NoError]

\* registry.discover_solvers: clear the store, the cached order and the flag;
\* load, validate and register one entry point after the other, the first
\* that raises ends the call with a RuntimeError naming it; set the flag,
\* then plan; the planning error, if any, leaves the method.
RegistryDiscover(group, h) ==
    LET sv == Register(<<>>, Loaded(group))
        t  == CalculateExecutionOrder(sv, TRUE, h)
    IN  IF Failing(group) # {}
        THEN [solvers |-> sv, discovered |-> FALSE, execution_order |-> {},
              err |-> LoadError(group, Len(Loaded(group)) + 1)]
        ELSE [solvers |-> sv,
              discovered |-> TRUE,
              execution_order |-> IF t.err.kind = "none" THEN {t.execution_order} ELSE {},
              err |-> t.err]

----------------------------------------------------------------------------
(* SolverManager. *)

\* A get_solver_instance that never looks into the cache.
GetSolverInstanceUncached(sv, disc, instances, solver_name, factory_ok) ==
    IF ~disc
    THEN [instances |-> instances, err |-> Error("NotDiscovered", "", "", <<>>, <<>>),
          factory |-> <<>>]
    ELSE IF solver_name \notin RegisteredNames(sv)
    THEN [instances |-> instances, err |-> Error("KeyError", solver_name, "", <<>>, <<>>),
          factory |-> <<>>]
    ELSE IF factory_ok
    THEN [instances |-> instances \cup {solver_name}, err |-> NoError, factory |-> <<TRUE>>]
    ELSE [instances |-> instances, err |-> Error("Instantiation", solver_name, "", <<>>, <<>>),
          factory |-> <<FALSE>>]

\* A get_solver_instance that caches the name although its constructor raised.
GetSolverInstanceCachingFailure(sv, disc, instances, solver_name, factory_ok) ==
    IF solver_name \in instances
    THEN [instances |-> instances, err |-> NoError, factory |-> <<>>]
    ELSE IF ~disc
    THEN [instances |-> instances, err |-> Error("NotDiscovered", "", "", <<>>, <<>>),
          factory |-> <<>>]
    ELSE IF solver_name \notin RegisteredNames(sv)
    THEN [instances |-> instances, err |-> Error("KeyError", solver_name, "", <<>>, <<>>),
          factory |-> <<>>]
    ELSE [instances |-> instances \cup {solver_name},
          err |-> IF factory_ok THEN NoError
                  ELSE Error("Instantiation", solver_name, "", <<>>, <<>>),
          factory |-> <<factory_ok>>]

\* get_solver_instance: the cached instance, or the class is looked up in the
\* registry and instantiated; factory_ok is whether solver_class() returns,
\* factory is the outcome of solver_class() if it was called, else empty.
GetSolverInstance(sv, disc, instances, solver_name, factory_ok) ==
    IF solver_name \in instances
    THEN [instances |-> instances, err |-> NoError, factory |-> <<>>]
    ELSE IF ~disc
    THEN [instances |-> instances, err |-> Error("NotDiscovered", "", "", <<>>, <<>>),
          factory |-> <<>>]
    ELSE IF solver_name \notin RegisteredNames(sv)
    THEN [instances |-> instances, err |-> Error("KeyError", solver_name, "", <<>>, <<>>),
          factory |-> <<>>]
    ELSE IF factory_ok
    THEN [instances |-> instances \cup {solver_name}, err |-> NoError, factory |-> <<TRUE>>]
    ELSE [instances |-> instances, err |-> Error("Instantiation", solver_name, "", <<>>, <<>>),
          factory |-> <<FALSE>>]

\* bool(report) of a list.
Truthy(report) == report # <<>>

\* The validate_dependencies block of execute_solver: report is what
\* solver.validate_dependencies(set(registry._solvers.keys())) returned; when
\* `not report` holds the ValueError is built from registry.get_solver_info.
DependencyCheck(sv, disc, solver_name, report) ==
    IF Truthy(report) THEN NoError
    ELSE IF ~disc THEN Error("NotDiscovered", "", "", <<>>, <<>>)
    ELSE IF solver_name \notin RegisteredNames(sv)
    THEN Error("KeyError", solver_name, "", <<>>, <<>>)
    ELSE Error("UnsatisfiedDependencies", solver_name, "", <<>>, <<>>)

\* An execute_solver that records the solver in the history before it runs it.
ExecuteSolverHistoryFirst(sv, disc, instances, history, solver_name, validate_dependencies, factory_ok, report, solve) ==
    LET g == GetSolverInstance(sv, disc, instances, solver_name, factory_ok)
        v == IF validate_dependencies THEN DependencyCheck(sv, disc, solver_name, report)
             ELSE NoError
    IN  IF g.err.kind # "none"
        THEN [instances |-> g.instances, history |-> history, err |-> g.err,
              factory |-> g.factory, validated |-> FALSE, invoked |-> FALSE]
        ELSE IF v.kind # "none"
        THEN [instances |-> g.instances, history |-> history, err |-> v,
              factory |-> g.factory, validated |-> TRUE, invoked |-> FALSE]
        ELSE IF solve = "ok"
        THEN [instances |-> g.instances, history |-> Append(history, solver_name),
              err |-> NoError,
              factory |-> g.factory, validated |-> validate_dependencies, invoked |-> TRUE]
        ELSE [instances |-> g.instances, history |-> Append(history, solver_name),
              err |-> Error("Execution", solver_name, solve, <<>>, <<>>),
              factory |-> g.factory, validated |-> validate_dependencies, invoked |-> TRUE]

\* An execute_solver that loses the message of what solve() raised.
ExecuteSolverBareError(sv, disc, instances, history, solver_name, validate_dependencies, factory_ok, report, solve) ==
    LET g == GetSolverInstance(sv, disc, instances, solver_name, factory_ok)
        v == IF validate_dependencies THEN DependencyCheck(sv, disc, solver_name, report)
             ELSE NoError
    IN  IF g.err.kind # "none"
        THEN [instances |-> g.instances, history |-> history, err |-> g.err,
              factory |-> g.factory, validated |-> FALSE, invoked |-> FALSE]
        ELSE IF v.kind # "none"
        THEN [instances |-> g.instances, history |-> history, err |-> v,
              factory |-> g.factory, validated |-> TRUE, invoked |-> FALSE]
        ELSE IF solve = "ok"
        THEN [instances |-> g.instances, history |-> Append(history, solver_name),
              err |-> NoError,
              factory |-> g.factory, validated |-> validate_dependencies, invoked |-> TRUE]
        ELSE [instances |-> g.instances, history |-> history,
              err |-> Error("Execution", "", "", <<>>, <<>>),
              factory |-> g.factory, validated |-> validate_dependencies, invoked |-> TRUE]

\* An execute_solver that appends to the history only the first time a solver
\* succeeds.
ExecuteSolverHistoryOnce(sv, disc, instances, history, solver_name, validate_dependencies, factory_ok, report, solve) ==
    LET g == GetSolverInstance(sv, disc, instances, solver_name, factory_ok)
        v == IF validate_dependencies THEN DependencyCheck(sv, disc, solver_name, report)
             ELSE NoError
    IN  IF g.err.kind # "none"
        THEN [instances |-> g.instances, history |-> history, err |-> g.err,
              factory |-> g.factory, validated |-> FALSE, invoked |-> FALSE]
        ELSE IF v.kind # "none"
        THEN [instances |-> g.instances, history |-> history, err |-> v,
              factory |-> g.factory, validated |-> TRUE, invoked |-> FALSE]
        ELSE IF solve = "ok"
        THEN [instances |-> g.instances,
              history |-> IF \E i \in 1..Len(history) : history[i] = solver_name
                          THEN history ELSE Append(history, solver_name),
              err |-> NoError,
              factory |-> g.factory, validated |-> validate_dependencies, invoked |-> TRUE]
        ELSE [instances |-> g.instances, history |-> history,
              err |-> Error("Execution", solver_name, solve, <<>>, <<>>),
              factory |-> g.factory, validated |-> validate_dependencies, invoked |-> TRUE]

\* execute_solver(solver_name, model, validate_dependencies): report is what
\* the plugin's validate_dependencies returns; solve is "ok" when
\* solver.solve(model) returns, else the message of what it raised. validated
\* tells whether validate_dependencies of the plugin was called, invoked
\* whether solve was.
ExecuteSolver(sv, disc, instances, history, solver_name, validate_dependencies, factory_ok, report, solve) ==
    LET g == GetSolverInstance(sv, disc, instances, solver_name, factory_ok)
        v == IF validate_dependencies THEN DependencyCheck(sv, disc, solver_name, report)
             ELSE NoError
    IN  IF g.err.kind # "none"
        THEN [instances |-> g.instances, history |-> history, err |-> g.err,
              factory |-> g.factory, validated |-> FALSE, invoked |-> FALSE]
        ELSE IF v.kind # "none"
        THEN [instances |-> g.instances, history |-> history, err |-> v,
              factory |-> g.factory, validated |-> TRUE, invoked |-> FALSE]
        ELSE IF solve = "ok"
        THEN [instances |-> g.instances, history |-> Append(history, solver_name),
              err |-> NoError,
              factory |-> g.factory, validated |-> validate_dependencies, invoked |-> TRUE]
        ELSE [instances |-> g.instances, history |-> history,
              err |-> Error("Execution", solver_name, solve, <<>>, <<>>),
              factory |-> g.factory, validated |-> validate_dependencies, invoked |-> TRUE]

\* The except clause of the batch loop: only a SolverExecutionError is caught,
\* and only without stop_on_error.
Caught(err, stop_on_error) == err.kind = "Execution" /\ ~stop_on_error

\* The combined error raised after the loop from the collected errors.
AggregateError(errors) == Error("AggregateExecution", "multiple", "", <<>>, errors)

\* A loop that walks the execution order from its end.
LoopNameBackwards(order, idx) == order[Len(order) + 1 - idx]

\* for solver_name in execution_order: the name of the idx-th iteration.
LoopName(order, idx) == order[idx]

\* A name check that looks at the first requested name only.
ValidateSolverNamesFirstOnly(sv, solver_names) ==
    IF solver_names = <<>> \/ solver_names[1] \in RegisteredNames(sv) THEN NoError
    ELSE Error("KeyError", solver_names[1], "", [i \in 1..Len(sv) |-> sv[i].name], <<>>)

\* The first loop of execute_subset: the KeyError for the first requested name
\* that is not in registry._solvers; it cites the registered names.
ValidateSolverNames(sv, solver_names) ==
    LET unknown == {i \in 1..Len(solver_names) : solver_names[i] \notin RegisteredNames(sv)}
    IN  IF unknown = {} THEN NoError
        ELSE Error("KeyError", solver_names[CHOOSE i \in unknown : \A j \in unknown : i <= j],
                   "", [i \in 1..Len(sv) |-> sv[i].name], <<>>)

\* An execute_subset that, asked to respect the order, runs the whole plan.
SubsetOrderWholePlan(full_order, solver_names, respect_order) ==
    IF respect_order THEN full_order ELSE solver_names

\* An execute_subset that always runs the names as they were given.
SubsetOrderAsGiven(full_order, solver_names, respect_order) == solver_names

\* An execute_subset that always filters the full execution order.
SubsetOrderFiltered(full_order, solver_names, respect_order) ==
    SelectSeq(full_order, LAMBDA s : s \in Range(solver_names))

\* The order execute_subset executes in: the full execution order filtered
\* down to the requested names, or the names as given.
SubsetOrder(full_order, solver_names, respect_order) ==
    IF respect_order THEN SelectSeq(full_order, LAMBDA s : s \in Range(solver_names))
    ELSE solver_names

----------------------------------------------------------------------------
(* The manager as a state machine. *)

\* The entry-point groups discover_solvers is given: the descriptor sets of
\* the test suites (a tier chain, a plan that differs from the registration
\* order, a cycle, a missing dependency) and two smaller ones.
ManagerSources ==
    { <<>>,
      <<SolverInfo("a", FOUNDATION, {})>>,
      <<SolverInfo("a", FOUNDATION, {}), SolverInfo("b", FOUNDATION, {})>>,
      <<SolverInfo("a", FOUNDATION, {}), SolverInfo("b", DEMAND, {"a"}),
        SolverInfo("c", SYSTEMS, {"b"})>>,
      <<SolverInfo("a", SYSTEMS, {"c"}), SolverInfo("b", FOUNDATION, {}),
        SolverInfo("c", SYSTEMS, {})>>,
      <<SolverInfo("a", DEMAND, {"b"}), SolverInfo("b", DEMAND, {"a"})>>,
      <<SolverInfo("a", DEMAND, {"b"})>> }

\* The entry-point groups: those of ManagerSources with every candidate
\* loading, and the tier chain with a last candidate that does not load.
ManagerGroups ==
    {Group(source, {}) : source \in ManagerSources}
    \cup {Group(<<SolverInfo("a", FOUNDATION, {}), SolverInfo("b", DEMAND, {"a"}),
                  SolverInfo("c", SYSTEMS, {"b"})>>, {3})}

\* What registry.discover_solvers may leave behind, over every group and every
\* hash order: declared is the descriptors the group's candidates declare, out the
\* registry and the error.
Discoveries ==
    {[declared |-> group.eps, out |-> RegistryDiscover(group, h)] :
        group \in ManagerGroups, h \in SetOrders}

\* The hash orders a call of get_execution_order depends on: all of them when
\* it has to plan, any one when it answers from the cache or raises at once.
PlanOrders ==
    IF discovered /\ execution_order = {} THEN SetOrders
    ELSE {CHOOSE h \in SetOrders : TRUE}

\* The lists of names execute_subset is asked for.
Requests == UNION {[1..k -> Names] : k \in 0..MaxRequest}

\* The names manager.list_available_solvers() lists: those of
\* registry._solvers, in dict order.
AvailableSolvers(sv) == [i \in 1..Len(sv) |-> sv[i].name]

\* The lists execute_subset is asked for on the registry sv: those of
\* Requests, and the list of every available solver.
RequestsOn(sv) == Requests \cup {AvailableSolvers(sv)}

\* Constructor calls of solver_name that raised since the last clearing.
FactoryFailures(solver_name) ==
    {<<solver_name, i>> : i \in {j \in 1..Len(factory_log[solver_name]) :
                                      ~factory_log[solver_name][j]}}

\* Whether solver_class() may return or raise: constructors raise at most
\* MaxFactoryFailures times between two clearings.
FactoryOutcomes ==
    IF Cardinality(UNION {FactoryFailures(n) : n \in Names}) < MaxFactoryFailures
    THEN BOOLEAN ELSE {TRUE}

\* result = solver.solve(model): what execute_solver returns when solve()
\* returns.
SolveReturns(solver_name, model) ==
    IF solver_name \in ReturnsSelf THEN solver_name ELSE model

\* The call record after execute_solver was called for solver_name with
\* outcome e; the batch loops assign what execute_solver returned to model.
Seen(c, solver_name, e, solve) ==
    [c EXCEPT !.attempted = Append(@, solver_name),
              !.invoked = IF e.invoked THEN Append(@, solver_name) ELSE @,
              !.failed = IF e.err.kind = "Execution" THEN Append(@, solver_name) ELSE @,
              !.raised = IF e.invoked /\ solve # "ok" THEN Append(@, solve) ELSE @,
              !.received = IF e.invoked THEN Append(@, c.model) ELSE @,
              !.model = IF e.err.kind = "none" THEN SolveReturns(solver_name, c.model) ELSE @]

\* The manager as reset() leaves it: nothing cached, nothing executed.
Fresh ==
    /\ solver_instances = {}
    /\ execution_history = <<>>
    /\ factory_log = NoFactoryCalls

Init ==
    /\ solvers = <<>>
    /\ execution_order = {}
    /\ discovered = FALSE
    /\ solver_instances = {}
    /\ execution_history = <<>>
    /\ factory_log = NoFactoryCalls
    /\ call = NoCall
    /\ result = Result("init", NoError, <<>>)
    /\ succeeded = FALSE
    /\ other = NewManager(FALSE)

\* A discover_solvers whose registry keeps the order it had cached.
DiscoverKeepingPlan ==
    /\ call.pc = "idle"
    /\ \E d \in Discoveries :
        LET r == d.out
        IN  /\ solvers' = r.solvers
            /\ discovered' = r.discovered
            /\ execution_order' = IF execution_order # {} THEN execution_order
                                  ELSE r.execution_order
            /\ solver_instances' = IF r.err.kind = "none" THEN {} ELSE solver_instances
            /\ execution_history' = IF r.err.kind = "none" THEN <<>> ELSE execution_history
            /\ factory_log' = IF r.err.kind = "none" THEN NoFactoryCalls ELSE factory_log
            /\ result' = Result("discover", r.err, <<>>)
            /\ call' = [NoCall EXCEPT !.pc = "done", !.op = "discover",
                                      !.hist0 = execution_history,
                                      !.names0 = [i \in 1..Len(solvers) |-> solvers[i].name],
                                      !.request = d.declared]
            /\ succeeded' = (succeeded \/ r.err.kind = "none")
            /\ UNCHANGED other

\* A discover_solvers whose registry registers the candidates on top of what
\* it held.
DiscoverKeepingOld ==
    /\ call.pc = "idle"
    /\ \E d \in Discoveries :
        LET r == d.out
        IN  /\ solvers' = Register(solvers, r.solvers)
            /\ discovered' = r.discovered
            /\ execution_order' = r.execution_order
            /\ solver_instances' = IF r.err.kind = "none" THEN {} ELSE solver_instances
            /\ execution_history' = IF r.err.kind = "none" THEN <<>> ELSE execution_history
            /\ factory_log' = IF r.err.kind = "none" THEN NoFactoryCalls ELSE factory_log
            /\ result' = Result("discover", r.err, <<>>)
            /\ call' = [NoCall EXCEPT !.pc = "done", !.op = "discover",
                                      !.hist0 = execution_history,
                                      !.names0 = [i \in 1..Len(solvers) |-> solvers[i].name],
                                      !.request = d.declared]
            /\ succeeded' = (succeeded \/ r.err.kind = "none")
            /\ UNCHANGED other

\* manager.discover_solvers(group): the registry discovers, then the instance
\* cache and the history are cleared; an error raised by the registry leaves
\* before the two clear() calls.
Discover ==
    /\ call.pc = "idle"
    /\ \E d \in Discoveries :
        LET r == d.out
        IN  /\ solvers' = r.solvers
            /\ discovered' = r.discovered
            /\ execution_order' = r.execution_order
            /\ solver_instances' = IF r.err.kind = "none" THEN {} ELSE solver_instances
            /\ execution_history' = IF r.err.kind = "none" THEN <<>> ELSE execution_history
            /\ factory_log' = IF r.err.kind = "none" THEN NoFactoryCalls ELSE factory_log
            /\ result' = Result("discover", r.err, <<>>)
            /\ call' = [NoCall EXCEPT !.pc = "done", !.op = "discover",
                                      !.hist0 = execution_history,
                                      !.names0 = [i \in 1..Len(solvers) |-> solvers[i].name],
                                      !.request = d.declared]
            /\ succeeded' = (succeeded \/ r.err.kind = "none")
            /\ UNCHANGED other

\* A reset that clears the history and keeps the instances.
ResetHistoryOnly ==
    /\ call.pc = "idle"
    /\ execution_history' = <<>>
    /\ result' = Result("reset", NoError, <<>>)
    /\ call' = [NoCall EXCEPT !.pc = "done", !.op = "reset", !.hist0 = execution_history]
    /\ UNCHANGED <<solvers, discovered, execution_order, solver_instances, factory_log,
                   succeeded, other>>

\* manager.reset()
Reset ==
    /\ call.pc = "idle"
    /\ solver_instances' = {}
    /\ execution_history' = <<>>
    /\ factory_log' = NoFactoryCalls
    /\ result' = Result("reset", NoError, <<>>)
    /\ call' = [NoCall EXCEPT !.pc = "done", !.op = "reset", !.hist0 = execution_history]
    /\ UNCHANGED <<solvers, discovered, execution_order, succeeded, other>>

\* manager.get_solver_instance(solver_name)
GetInstance ==
    /\ call.pc = "idle"
    /\ \E solver_name \in Names :
       \E factory_ok \in FactoryOutcomes :
        LET g == GetSolverInstance(solvers, discovered, solver_instances, solver_name,
                                   factory_ok)
        IN  /\ solver_instances' = g.instances
            /\ factory_log' = [factory_log EXCEPT ![solver_name] = @ \o g.factory]
            /\ result' = Result("get_solver_instance", g.err, <<solver_name>>)
            /\ call' = [NoCall EXCEPT !.pc = "done", !.op = "get_solver_instance",
                                      !.plan = <<solver_name>>]
            /\ UNCHANGED <<solvers, discovered, execution_order, execution_history,
                           succeeded, other>>

\* manager.execute_solver(solver_name, model, validate_dependencies)
ExecuteOne ==
    /\ call.pc = "idle"
    /\ Len(execution_history) + Len(other.execution_history) < MaxHistory
    /\ \E solver_name \in Names, validate_dependencies \in BOOLEAN,
          solve \in {"ok"} \cup Messages :
       \E factory_ok \in FactoryOutcomes,
          report \in IF validate_dependencies THEN Reports ELSE {<<>>} :
        LET e == ExecuteSolver(solvers, discovered, solver_instances, execution_history,
                               solver_name, validate_dependencies, factory_ok, report, solve)
            began == [NoCall EXCEPT !.pc = "done",
                                    !.op = "execute_solver",
                                    !.plan = <<solver_name>>,
                                    !.hist0 = execution_history,
                                    !.validated = e.validated,
                                    !.report = IF e.validated THEN report ELSE <<>>]
        IN  /\ solver_instances' = e.instances
            /\ execution_history' = e.history
            /\ factory_log' = [factory_log EXCEPT ![solver_name] = @ \o e.factory]
            /\ call' = Seen(began, solver_name, e, solve)
            /\ result' = Result("execute_solver", e.err,
                                IF e.err.kind = "none"
                                THEN <<SolveReturns(solver_name, CallerModel)>> ELSE <<>>)
            /\ UNCHANGED <<solvers, discovered, execution_order, succeeded, other>>

\* execute_all, up to its loop: execution_order = registry.get_execution_order()
\* and errors = []; an error of get_execution_order ends the call.
ExecuteAllBegin ==
    /\ call.pc = "idle"
    /\ \E stop_on_error \in BOOLEAN, h \in PlanOrders :
        LET g == GetExecutionOrderOutcome(solvers, discovered, execution_order, h)
        IN  /\ Len(execution_history) + Len(g.value) <= MaxHistory
            /\ execution_order' = g.cache
            /\ call' = [NoCall EXCEPT !.pc = IF g.err.kind = "none" THEN "running" ELSE "done",
                                      !.op = "execute_all",
                                      !.stop = stop_on_error,
                                      !.plan = g.value,
                                      !.hist0 = execution_history,
                                      !.fresh = Fresh]
            /\ result' = IF g.err.kind = "none" THEN Result("running", NoError, <<>>)
                         ELSE Result("execute_all", g.err, <<>>)
            /\ UNCHANGED <<solvers, discovered, solver_instances, execution_history,
                           factory_log, succeeded, other>>

\* execute_subset, up to its loop: every requested name is looked up in
\* registry._solvers, then the order of execution is fixed; a KeyError or an
\* error of get_execution_order ends the call.
ExecuteSubsetBegin ==
    /\ call.pc = "idle"
    /\ \E solver_names \in RequestsOn(solvers), respect_order \in BOOLEAN,
          stop_on_error \in BOOLEAN,
          h \in PlanOrders :
        LET v == ValidateSolverNames(solvers, solver_names)
            g == IF v.kind = "none" /\ respect_order
                 THEN GetExecutionOrderOutcome(solvers, discovered, execution_order, h)
                 ELSE [err |-> NoError, value |-> <<>>, cache |-> execution_order]
            err == IF v.kind # "none" THEN v ELSE g.err
            order == IF err.kind = "none" THEN SubsetOrder(g.value, solver_names, respect_order)
                     ELSE <<>>
        IN  /\ Len(execution_history) + Len(order) <= MaxHistory
            /\ execution_order' = g.cache
            /\ call' = [NoCall EXCEPT !.pc = IF err.kind = "none" THEN "running" ELSE "done",
                                      !.op = "execute_subset",
                                      !.stop = stop_on_error,
                                      !.plan = order,
                                      !.hist0 = execution_history,
                                      !.request = solver_names,
                                      !.respect = respect_order]
            /\ result' = IF err.kind = "none" THEN Result("running", NoError, <<>>)
                         ELSE Result("execute_subset", err, <<>>)
            /\ UNCHANGED <<solvers, discovered, solver_instances, execution_history,
                           factory_log, succeeded, other>>

\* A loop that in execute_subset re-raises the first error whatever
\* stop_on_error says.
LoopStepSubsetStops(op) ==
    /\ call.pc = "running"
    /\ call.op = op
    /\ call.idx <= Len(call.plan)
    /\ \E solve \in {"ok"} \cup Messages :
       \E factory_ok \in FactoryOutcomes :
        LET solver_name == LoopName(call.plan, call.idx)
            e == ExecuteSolver(solvers, discovered, solver_instances, execution_history,
                               solver_name, FALSE, factory_ok, <<>>, solve)
            seen == Seen(call, solver_name, e, solve)
        IN  /\ solver_instances' = e.instances
            /\ execution_history' = e.history
            /\ factory_log' = [factory_log EXCEPT ![solver_name] = @ \o e.factory]
            /\ IF e.err.kind = "none"
               THEN /\ call' = [seen EXCEPT !.idx = @ + 1]
                    /\ UNCHANGED result
               ELSE IF Caught(e.err, call.stop \/ op = "execute_subset")
               THEN /\ call' = [seen EXCEPT !.idx = @ + 1,
                                            !.errors = Append(@, <<e.err.solver, e.err.detail>>)]
                    /\ UNCHANGED result
               ELSE /\ call' = [seen EXCEPT !.pc = "done"]
                    /\ result' = Result(op, e.err, <<>>)
            /\ UNCHANGED <<solvers, discovered, execution_order, succeeded, other>>

\* A loop that, having caught the error of a plugin, calls that plugin again.
LoopStepRetrying(op) ==
    /\ call.pc = "running"
    /\ call.op = op
    /\ call.idx <= Len(call.plan)
    /\ \E solve \in {"ok"} \cup Messages :
       \E factory_ok \in FactoryOutcomes :
        LET solver_name == LoopName(call.plan, call.idx)
            e == ExecuteSolver(solvers, discovered, solver_instances, execution_history,
                               solver_name, FALSE, factory_ok, <<>>, solve)
            seen == Seen(call, solver_name, e, solve)
        IN  /\ solver_instances' = e.instances
            /\ execution_history' = e.history
            /\ factory_log' = [factory_log EXCEPT ![solver_name] = @ \o e.factory]
            /\ IF e.err.kind = "none"
               THEN /\ call' = [seen EXCEPT !.idx = @ + 1]
                    /\ UNCHANGED result
               ELSE IF Caught(e.err, call.stop)
               THEN /\ call' = [seen EXCEPT !.idx = IF Len(seen.failed) < 2 THEN @ ELSE @ + 1,
                                            !.errors = Append(@, <<e.err.solver, e.err.detail>>)]
                    /\ UNCHANGED result
               ELSE /\ call' = [seen EXCEPT !.pc = "done"]
                    /\ result' = Result(op, e.err, <<>>)
            /\ UNCHANGED <<solvers, discovered, execution_order, succeeded, other>>

\* One iteration of the loop of execute_all or execute_subset (op):
\* execute_solver on the next name without validate_dependencies; a caught
\* SolverExecutionError is collected, any other exception (and any with
\* stop_on_error) leaves the call.
LoopStep(op) ==
    /\ call.pc = "running"
    /\ call.op = op
    /\ call.idx <= Len(call.plan)
    /\ \E solve \in {"ok"} \cup Messages :
       \E factory_ok \in FactoryOutcomes :
        LET solver_name == LoopName(call.plan, call.idx)
            e == ExecuteSolver(solvers, discovered, solver_instances, execution_history,
                               solver_name, FALSE, factory_ok, <<>>, solve)
            seen == Seen(call, solver_name, e, solve)
        IN  /\ solver_instances' = e.instances
            /\ execution_history' = e.history
            /\ factory_log' = [factory_log EXCEPT ![solver_name] = @ \o e.factory]
            /\ IF e.err.kind = "none"
               THEN /\ call' = [seen EXCEPT !.idx = @ + 1]
                    /\ UNCHANGED result
               ELSE IF Caught(e.err, call.stop)
               THEN /\ call' = [seen EXCEPT !.idx = @ + 1,
                                            !.errors = Append(@, <<e.err.solver, e.err.detail>>)]
                    /\ UNCHANGED result
               ELSE /\ call' = [seen EXCEPT !.pc = "done"]
                    /\ result' = Result(op, e.err, <<>>)
            /\ UNCHANGED <<solvers, discovered, execution_order, succeeded, other>>

\* execute_all or execute_subset (op) after its loop: the combined error if
\* any error was collected, else the local variable model is returned.
LoopEnd(op) ==
    /\ call.pc = "running"
    /\ call.op = op
    /\ call.idx > Len(call.plan)
    /\ call' = [call EXCEPT !.pc = "done"]
    /\ result' = IF call.errors # <<>>
                 THEN Result(op, AggregateError(call.errors), <<>>)
                 ELSE Result(op, NoError, <<call.model>>)
    /\ UNCHANGED <<solvers, discovered, execution_order, solver_instances,
                   execution_history, factory_log, succeeded, other>>

\* A clear_execution_history that drops the last entry only.
ClearExecutionHistoryLastOnly ==
    /\ call.pc = "idle"
    /\ execution_history' = SubSeq(execution_history, 1, Len(execution_history) - 1)
    /\ result' = Result("clear_execution_history", NoError, <<>>)
    /\ call' = [NoCall EXCEPT !.pc = "done", !.op = "clear_execution_history",
                              !.hist0 = execution_history]
    /\ UNCHANGED <<solvers, discovered, execution_order, solver_instances, factory_log,
                   succeeded, other>>

\* manager.clear_execution_history(): the history is emptied, the instances
\* stay.
ClearExecutionHistory ==
    /\ call.pc = "idle"
    /\ execution_history' = <<>>
    /\ result' = Result("clear_execution_history", NoError, <<>>)
    /\ call' = [NoCall EXCEPT !.pc = "done", !.op = "clear_execution_history",
                              !.hist0 = execution_history]
    /\ UNCHANGED <<solvers, discovered, execution_order, solver_instances, factory_log,
                   succeeded, other>>

\* The call has returned or raised and the caller goes on to its next call.
Return ==
    /\ call.pc = "done"
    /\ call' = NoCall
    /\ result' = Result("init", NoError, <<>>)
    /\ UNCHANGED <<solvers, discovered, execution_order, solver_instances,
                   execution_history, factory_log, succeeded, other>>

ExecuteAllStep == LoopStep("execute_all")

ExecuteAllEnd == LoopEnd("execute_all")

ExecuteSubsetStep == LoopStep("execute_subset")

ExecuteSubsetEnd == LoopEnd("execute_subset")

\* A caller that discovers, resets and runs whole batches.
Next ==
    \/ Discover
    \/ Reset
    \/ ExecuteAllBegin
    \/ ExecuteAllStep
    \/ ExecuteAllEnd
    \/ Return

Spec == Init /\ [][Next]_vars

\* A caller that discovers and runs subsets.
NextSubset ==
    \/ Discover
    \/ ExecuteSubsetBegin
    \/ ExecuteSubsetStep
    \/ ExecuteSubsetEnd
    \/ Return

SpecSubset == Init /\ [][NextSubset]_vars

\* A caller that discovers, resets and asks for one plugin at a time.
NextOne ==
    \/ Discover
    \/ Reset
    \/ GetInstance
    \/ ExecuteOne
    \/ Return

SpecOne == Init /\ [][NextOne]_vars

\* A caller that makes any public call in any order.
NextManager ==
    \/ Discover
    \/ Reset
    \/ GetInstance
    \/ ExecuteOne
    \/ ExecuteAllBegin
    \/ ExecuteAllStep
    \/ ExecuteAllEnd
    \/ ExecuteSubsetBegin
    \/ ExecuteSubsetStep
    \/ ExecuteSubsetEnd
    \/ ClearExecutionHistory
    \/ Return

SpecManager == Init /\ [][NextManager]_vars

----------------------------------------------------------------------------
(* Queries of the registry and of the manager, and what a caller may do to  *)
(* the lists they return.                                                   *)

\* The queries of the registry.
RegistryQueries == {"get_solver_class", "get_solver_info", "list_solvers"}

\* registry.get_solver_class(solver_name) and
\* registry.get_solver_info(solver_name): the descriptor of the name (the
\* class is a field of it), a RuntimeError before discovery, a KeyError for a
\* name that is not registered.
RegistryLookup(sv, disc, solver_name) ==
    IF ~disc THEN [err |-> Error("NotDiscovered", "", "", <<>>, <<>>), value |-> <<>>]
    ELSE IF solver_name \notin RegisteredNames(sv)
    THEN [err |-> Error("KeyError", solver_name, "", <<>>, <<>>), value |-> <<>>]
    ELSE [err |-> NoError, value |-> <<Info(sv, solver_name)>>]

\* registry.list_solvers(): list(self._solvers.values()), a RuntimeError
\* before discovery.
ListSolvers(sv, disc) ==
    IF ~disc THEN [err |-> Error("NotDiscovered", "", "", <<>>, <<>>), value |-> <<>>]
    ELSE [err |-> NoError, value |-> sv]

\* What a query of the registry answers.
RegistryQueryOutcome(sv, disc, query, solver_name) ==
    IF query = "list_solvers" THEN ListSolvers(sv, disc)
    ELSE RegistryLookup(sv, disc, solver_name)

\* A getter that hands out the stored list itself.
ReturnedListItself(list) == [items |-> list, shared |-> TRUE]

\* return self._execution_order.copy() and
\* return self._execution_history.copy(): a new list with the same items;
\* shared tells whether the caller holds the stored list object.
ReturnedList(list) == [items |-> list, shared |-> FALSE]

\* What a caller may do to a list it holds.
Mutations == {"append", "remove", "reorder"}

\* The list after the caller's mutation: a name appended, the first item
\* removed, or the items reversed.
Mutated(list, mutation) ==
    IF mutation = "append" THEN Append(list, NameSeq[1])
    ELSE IF mutation = "remove" THEN (IF list = <<>> THEN list ELSE Tail(list))
    ELSE [i \in 1..Len(list) |-> list[Len(list) + 1 - i]]

\* manager.get_execution_order(), which is registry.get_execution_order().
ManagerGetExecutionOrder ==
    /\ call.pc = "idle"
    /\ \E h \in PlanOrders :
        LET g == GetExecutionOrderOutcome(solvers, discovered, execution_order, h)
            r == ReturnedList(g.value)
        IN  /\ execution_order' = g.cache
            /\ result' = Result("get_execution_order", g.err, r.items)
            /\ call' = [NoCall EXCEPT !.pc = "done", !.op = "get_execution_order",
                                      !.shared = (r.shared /\ g.err.kind = "none")]
            /\ UNCHANGED <<solvers, discovered, solver_instances, execution_history,
                           factory_log, succeeded, other>>

\* manager.get_execution_history()
GetExecutionHistory ==
    /\ call.pc = "idle"
    /\ LET r == ReturnedList(execution_history)
       IN  /\ result' = Result("get_execution_history", NoError, r.items)
           /\ call' = [NoCall EXCEPT !.pc = "done", !.op = "get_execution_history",
                                     !.shared = r.shared]
    /\ UNCHANGED <<solvers, discovered, execution_order, solver_instances,
                   execution_history, factory_log, succeeded, other>>

\* registry.get_solver_class(solver_name), registry.get_solver_info(solver_name)
\* or registry.list_solvers() on the manager's registry.
RegistryQuery ==
    /\ call.pc = "idle"
    /\ \E query \in RegistryQueries :
       \E solver_name \in IF query = "list_solvers" THEN {NameSeq[1]} ELSE Names :
        LET q == RegistryQueryOutcome(solvers, discovered, query, solver_name)
        IN  /\ result' = Result(query, q.err, q.value)
            /\ call' = [NoCall EXCEPT !.pc = "done", !.op = query,
                                      !.plan = IF query = "list_solvers" THEN <<>>
                                               ELSE <<solver_name>>]
    /\ UNCHANGED <<solvers, discovered, execution_order, solver_instances,
                   execution_history, factory_log, succeeded, other>>

\* The caller appends to, removes from or reorders the list the getter just
\* returned; when that list is the stored list, the stored list changes with
\* it.
CallerMutates ==
    /\ call.pc = "done"
    /\ call.op \in {"get_execution_order", "get_execution_history"}
    /\ result.err.kind = "none"
    /\ \E mutation \in Mutations :
        LET list == Mutated(result.value, mutation)
        IN  /\ list # result.value
            /\ result' = [result EXCEPT !.value = list]
            /\ call' = [call EXCEPT !.op = "caller_mutates", !.plan = result.value]
            /\ execution_order' = IF call.shared /\ call.op = "get_execution_order"
                                  THEN {list} ELSE execution_order
            /\ execution_history' = IF call.shared /\ call.op = "get_execution_history"
                                    THEN list ELSE execution_history
    /\ UNCHANGED <<solvers, discovered, solver_instances, factory_log, succeeded, other>>

\* The fields of the dataclass SolverInfo.
SolverInfoFields ==
    {"name", "solver_class", "priority", "depends_on", "version", "entry_point_name"}

\* The attributes of the descriptor solver_info reads to build its dict, in
\* the order it reads them.
SolverInfoReads == <<"version", "priority", "depends_on", "description">>

\* version of SolverInfo when the plugin class gives solver_version "0.0.0".
SolverVersion == "0.0.0"

\* getattr(info, field) for a field the dataclass has.
Attribute(info, field) ==
    CASE field = "name" -> info.name
      [] field = "priority" -> info.priority
      [] field = "depends_on" -> info.depends_on
      [] field = "version" -> SolverVersion

\* OpenPhModel.solver_info(solver_name): a ValueError for a name that is not
\* in registry._solvers; else the dict built from the descriptor's
\* attributes, where reading an attribute the dataclass does not have raises
\* AttributeError.
SolverInfoDict(sv, solver_name) ==
    LET absent == SelectSeq(SolverInfoReads, LAMBDA field : field \notin SolverInfoFields)
    IN  IF solver_name \notin RegisteredNames(sv)
        THEN [err |-> Error("ValueError", solver_name, "", <<>>, <<>>), value |-> <<>>]
        ELSE IF absent # <<>>
        THEN [err |-> Error("AttributeError", solver_name, Head(absent), <<>>, <<>>),
              value |-> <<>>]
        ELSE [err |-> NoError,
              value |-> <<[field \in {"name"} \cup Range(SolverInfoReads) |->
                              IF field = "name" THEN solver_name
                              ELSE Attribute(Info(sv, solver_name), field)]>>]

\* model.solver_info(solver_name)
ModelSolverInfo ==
    /\ call.pc = "idle"
    /\ \E solver_name \in Names :
        LET q == SolverInfoDict(solvers, solver_name)
        IN  /\ result' = Result("solver_info", q.err, q.value)
            /\ call' = [NoCall EXCEPT !.pc = "done", !.op = "solver_info",
                                      !.plan = <<solver_name>>]
    /\ UNCHANGED <<solvers, discovered, execution_order, solver_instances,
                   execution_history, factory_log, succeeded, other>>

\* A caller that discovers, resets, runs whole batches and asks the registry
\* and the manager what they hold.
NextQuery ==
    \/ Discover
    \/ Reset
    \/ ExecuteAllBegin
    \/ ExecuteAllStep
    \/ ExecuteAllEnd
    \/ ManagerGetExecutionOrder
    \/ GetExecutionHistory
    \/ RegistryQuery
    \/ ModelSolverInfo
    \/ CallerMutates
    \/ Return

SpecQuery == Init /\ [][NextQuery]_vars

----------------------------------------------------------------------------
(* Two managers. *)

\* The registry the second manager holds: the first manager's when the two
\* share one, else its own.
OtherRegistry ==
    IF other.shared
    THEN [solvers |-> solvers, execution_order |-> execution_order, discovered |-> discovered]
    ELSE [solvers |-> other.solvers, execution_order |-> other.execution_order,
          discovered |-> other.discovered]

\* Two managers right after their construction; the second was given the
\* registry of the first, or none.
InitTwo ==
    /\ solvers = <<>>
    /\ execution_order = {}
    /\ discovered = FALSE
    /\ solver_instances = {}
    /\ execution_history = <<>>
    /\ factory_log = NoFactoryCalls
    /\ call = NoCall
    /\ result = Result("init", NoError, <<>>)
    /\ succeeded = FALSE
    /\ other \in {NewManager(given) : given \in BOOLEAN}

\* The call has returned or raised and the caller goes on to its next call,
\* on the same manager or on the other one: in that case the manager called
\* so far becomes the other one. calls counts the calls completed.
Turn ==
    /\ call.pc = "done"
    /\ other.calls < MaxTwoCalls
    /\ call' = NoCall
    /\ result' = Result("init", NoError, <<>>)
    /\ \E swap \in BOOLEAN :
        IF ~swap
        THEN /\ other' = [other EXCEPT !.calls = @ + 1]
             /\ UNCHANGED <<solvers, execution_order, discovered, succeeded,
                            solver_instances, execution_history, factory_log>>
        ELSE /\ solver_instances' = other.solver_instances
             /\ execution_history' = other.execution_history
             /\ factory_log' = other.factory_log
             /\ IF other.shared
                THEN /\ UNCHANGED <<solvers, execution_order, discovered, succeeded>>
                     /\ other' = [other EXCEPT !.calls = @ + 1,
                                               !.solver_instances = solver_instances,
                                               !.execution_history = execution_history,
                                               !.factory_log = factory_log]
                ELSE /\ solvers' = other.solvers
                     /\ execution_order' = other.execution_order
                     /\ discovered' = other.discovered
                     /\ succeeded' = other.succeeded
                     /\ other' = [other EXCEPT !.calls = @ + 1,
                                               !.solvers = solvers,
                                               !.execution_order = execution_order,
                                               !.discovered = discovered,
                                               !.succeeded = succeeded,
                                               !.solver_instances = solver_instances,
                                               !.execution_history = execution_history,
                                               !.factory_log = factory_log]

\* A caller that holds two managers and calls either.
NextTwo ==
    \/ Discover
    \/ Reset
    \/ GetInstance
    \/ ExecuteOne
    \/ Turn

SpecTwo == InitTwo /\ [][NextTwo]_vars

----------------------------------------------------------------------------
(* Discovery of candidates that may lack protocol attributes, on the        *)
(* registry alone.                                                          *)

\* The entry-point groups of the protocol validation: up to two candidates,
\* each with any subset of the required attributes.
ProtocolGroups ==
    LET eps == <<SolverInfo("a", FOUNDATION, {}), SolverInfo("b", FOUNDATION, {})>>
    IN  UNION {{Candidates(SubSeq(eps, 1, k), attrs) :
                   attrs \in [1..k -> SUBSET Range(RequiredAttrs)]} : k \in 0..Len(eps)}

\* registry.discover_solvers(group) for a group of ProtocolGroups, on a
\* registry that has not discovered before.
DiscoverCandidates ==
    /\ call.op = ""
    /\ \E group \in ProtocolGroups, h \in SetOrders :
        LET r == RegistryDiscover(group, h)
        IN  /\ solvers' = r.solvers
            /\ discovered' = r.discovered
            /\ execution_order' = r.execution_order
            /\ result' = Result("discover_solvers", r.err, <<>>)
            /\ call' = [NoCall EXCEPT !.op = "discover_solvers", !.request = group.eps,
                                      !.attrs = group.attrs]
            /\ succeeded' = (succeeded \/ r.err.kind = "none")
            /\ UNCHANGED <<solver_instances, execution_history, factory_log, other>>

NextProtocol == DiscoverCandidates

SpecProtocol == Init /\ [][NextProtocol]_vars

----------------------------------------------------------------------------
(* The planner step by step: one step per call of, and per return from,     *)
(* _add_solver_to_order.                                                    *)

\* One _add_solver_to_order call in progress: its solver and the
\* dependencies its for loop has yet to visit.
Frame(solver_name, deps) == [solver_name |-> solver_name, deps |-> deps]

\* _add_solver_to_order(solver_name, ...) up to its for loop: it returns at
\* once for a processed solver, raises for one that is being visited, and
\* else marks the solver as visiting, looks it up and begins the loop over
\* its depends_on.
EnterSolver(sv, solver_name, tr) ==
    IF solver_name \in tr.processed THEN tr
    ELSE IF solver_name \in tr.visiting
    THEN [tr EXCEPT !.err = CircularError(tr.visiting, solver_name, tr.h)]
    ELSE IF solver_name \notin RegisteredNames(sv)
    THEN [tr EXCEPT !.visiting = @ \cup {solver_name},
                    !.err = Error("KeyError", solver_name, "", <<>>, <<>>)]
    ELSE [tr EXCEPT !.visiting = @ \cup {solver_name},
                    !.stack = Append(@, Frame(solver_name,
                                              SetIter(Info(sv, solver_name).depends_on, tr.h)))]

\* An end of _add_solver_to_order that does not record the solver as
\* processed.
LeaveSolverUnprocessed(tr) ==
    LET top == tr.stack[Len(tr.stack)]
    IN  [tr EXCEPT !.visiting = @ \ {top.solver_name},
                   !.execution_order = Append(@, top.solver_name),
                   !.stack = SubSeq(@, 1, Len(@) - 1)]

\* The end of the innermost _add_solver_to_order, its loop exhausted:
\* visiting.remove, processed.add, execution_order.append, return.
LeaveSolver(tr) ==
    LET top == tr.stack[Len(tr.stack)]
    IN  [tr EXCEPT !.visiting = @ \ {top.solver_name},
                   !.processed = @ \cup {top.solver_name},
                   !.execution_order = Append(@, top.solver_name),
                   !.stack = SubSeq(@, 1, Len(@) - 1)]

\* The planning call goes on with the locals tr, or ends with the error that
\* was raised.
Continue(tr) ==
    /\ call' = [call EXCEPT !.traversal = tr,
                            !.pc = IF tr.err.kind = "none" THEN "running" ELSE "done"]
    /\ result' = IF tr.err.kind = "none" THEN result ELSE Result("calculate", tr.err, <<>>)
    /\ UNCHANGED <<solvers, execution_order, discovered, solver_instances,
                   execution_history, factory_log, succeeded, other>>

\* registry._calculate_execution_order() up to its loops: the discovery
\* check, _validate_all_dependencies and the grouping by priority.
TraverseBegin ==
    /\ call.pc = "idle"
    /\ \E h \in SetOrders :
        LET v == IF ~discovered THEN Error("NotDiscovered", "", "", <<>>, <<>>)
                 ELSE ValidateAllDependencies(solvers, h)
        IN  /\ call' = [NoCall EXCEPT
                           !.pc = IF v.kind = "none" THEN "running" ELSE "done",
                           !.op = "calculate",
                           !.traversal = [NoTraversal EXCEPT
                                             !.roots = IF v.kind = "none"
                                                       THEN TierRoots(solvers, FOUNDATION)
                                                       ELSE <<>>,
                                             !.err = v,
                                             !.h = h]]
            /\ result' = IF v.kind = "none" THEN Result("running", NoError, <<>>)
                         ELSE Result("calculate", v, <<>>)
    /\ UNCHANGED <<solvers, execution_order, discovered, solver_instances,
                   execution_history, factory_log, succeeded, other>>

\* One iteration of the inner loop of _calculate_execution_order: the call
\* _add_solver_to_order(solver_name, execution_order, processed, visiting=set()).
TraverseRoot ==
    /\ call.pc = "running"
    /\ call.op = "calculate"
    /\ call.traversal.stack = <<>>
    /\ call.traversal.roots # <<>>
    /\ Continue(EnterSolver(solvers, Head(call.traversal.roots),
                            [call.traversal EXCEPT !.roots = Tail(@), !.visiting = {}]))

\* One step of the innermost _add_solver_to_order: the recursive call for the
\* next dependency of its loop, or its end when the loop is exhausted.
TraverseStep ==
    /\ call.pc = "running"
    /\ call.op = "calculate"
    /\ call.traversal.stack # <<>>
    /\ LET tr == call.traversal
           depth == Len(tr.stack)
           top == tr.stack[depth]
       IN  IF top.deps # <<>>
           THEN Continue(EnterSolver(solvers, Head(top.deps),
                                     [tr EXCEPT !.stack[depth].deps = Tail(@)]))
           ELSE Continue(LeaveSolver(tr))

\* The loops are exhausted: self._execution_order = execution_order.
TraverseEnd ==
    /\ call.pc = "running"
    /\ call.op = "calculate"
    /\ call.traversal.stack = <<>>
    /\ call.traversal.roots = <<>>
    /\ execution_order' = {call.traversal.execution_order}
    /\ call' = [call EXCEPT !.pc = "done"]
    /\ result' = Result("calculate", NoError, <<>>)
    /\ UNCHANGED <<solvers, discovered, solver_instances, execution_history, factory_log,
                   succeeded, other>>

NextTraverse == TraverseBegin \/ TraverseRoot \/ TraverseStep \/ TraverseEnd

\* One planning call on a registry whose descriptors were registered by
\* hand; the interpreter runs the call as long as it has a next step.
SpecTraverse == InitPlan /\ [][NextTraverse]_vars /\ WF_vars(NextTraverse)

----------------------------------------------------------------------------
(* Vocabulary of the planning properties. *)

Registered == RegisteredNames(solvers)

DependsOn(n) == Info(solvers, n).depends_on

TierOf(n) == Info(solvers, n).priority

\* Every depends_on entry names a registered descriptor.
Resolvable == \A i \in 1..Len(solvers) : solvers[i].depends_on \subseteq Registered

\* The (plugin, missing dependency) pairs of the registered set.
OffendingPairs ==
    {<<solvers[i].name, d>> : i \in 1..Len(solvers), d \in Names} \cap
    {pr \in Names \X Names : pr[2] \notin Registered /\ pr[2] \in DependsOn(pr[1])}

\* The names reached from S over 1..k dependency edges that stay inside R.
RECURSIVE ReachWithin(_, _, _)
ReachWithin(S, k, R) ==
    IF k = 0 THEN {}
    ELSE LET step == UNION {DependsOn(n) \cap R : n \in S \cap Registered}
         IN  step \cup ReachWithin(step, k - 1, R)

\* n lies on a dependency cycle made of names of R.
OnCycleWithin(n, R) == n \in Registered /\ n \in R /\ n \in ReachWithin({n}, Len(solvers), R)

HasCycle == \E n \in Registered : OnCycleWithin(n, Registered)

\* Planning has been asked for (and has answered).
Planned == result.op \in {"calculate", "get_execution_order"}

\* o lists every registered name exactly once.
IsPermutationOfRegistered(o) == Len(o) = Len(solvers) /\ Range(o) = Registered

DependenciesPrecede(o) ==
    \A p \in Registered : \A q \in DependsOn(p) : IndexOf(o, q) < IndexOf(o, p)

----------------------------------------------------------------------------
(* Planning properties (checked under SpecPlan). *)

\* C1: for an acyclic, fully resolvable descriptor set planning succeeds, the
\* order cached and returned by get_execution_order lists every registered
\* name exactly once and no other name, and every dependency of a plugin
\* stands at a strictly smaller index than the plugin.
C1_OrderIsTopologicalPermutation ==
    (Planned /\ Resolvable /\ ~HasCycle) =>
        /\ result.err.kind = "none"
        /\ \E o \in execution_order :
              /\ execution_order = {o}
              /\ IsPermutationOfRegistered(o)
              /\ DependenciesPrecede(o)
              /\ result.op = "get_execution_order" => result.value = o

\* C1 witness: three plugins registered a, b, c where a needs b and b needs c,
\* and get_execution_order has returned.
C1_Witness ==
    /\ result.op = "get_execution_order"
    /\ result.err.kind = "none"
    /\ Len(solvers) = 3
    /\ solvers[1].depends_on = {"b"}
    /\ solvers[2].depends_on = {"c"}
    /\ solvers[3].depends_on = {}
    /\ result.value = <<"c", "b", "a">>

\* C2: whenever planning succeeds, a plugin of a lower tier stands before
\* every plugin of a higher tier in the returned order.
C2_LowerTiersPrecede ==
    (result.op = "get_execution_order" /\ result.err.kind = "none") =>
        \A p, q \in Registered :
            TierOf(p) < TierOf(q) => IndexOf(result.value, p) < IndexOf(result.value, q)

\* Some descriptor depends on a registered plugin of a strictly later tier.
LaterTierDependency ==
    \E p \in Registered : \E q \in DependsOn(p) \cap Registered : TierOf(q) > TierOf(p)

\* C3: when a descriptor depends on a registered plugin of a strictly later
\* tier, planning fails and no execution order is produced or cached.
C3_LaterTierDependencyRejected ==
    (Planned /\ LaterTierDependency) =>
        /\ result.err.kind # "none"
        /\ execution_order = {}
        /\ result.value = <<>>

\* C4: when all names resolve and the dependency relation has a cycle (a
\* self-dependency included), planning fails with the circular-dependency
\* error, the error names every member of a cycle through the revisited
\* plugin, and no order is produced or cached; an acyclic set never raises it.
C4_CycleDetectedAndNamed ==
    (Planned /\ Resolvable) =>
        /\ HasCycle =>
              /\ result.err.kind = "CircularDependency"
              /\ OnCycleWithin(result.err.solver, Range(result.err.path))
              /\ execution_order = {}
              /\ result.value = <<>>
        /\ ~HasCycle => result.err.kind # "CircularDependency"

\* C4 witness: a and b depend on each other, planning has failed on it.
C4_Witness ==
    /\ Planned
    /\ Len(solvers) = 2
    /\ solvers[1].depends_on = {"b"}
    /\ solvers[2].depends_on = {"a"}
    /\ result.err.kind = "CircularDependency"
    /\ Range(result.err.path) = {"a", "b"}

\* C5: when some depends_on names an unregistered plugin, planning fails with
\* the unresolved-dependency error, which names a descriptor and a missing
\* name of that descriptor, and no order is produced or cached.
C5_UnresolvedDependencyReported ==
    (Planned /\ ~Resolvable) =>
        /\ result.err.kind = "UnresolvedDependency"
        /\ <<result.err.solver, result.err.detail>> \in OffendingPairs
        /\ execution_order = {}
        /\ result.value = <<>>

\* C5 witness: b is registered after a and alone depends on the unregistered c.
C5_Witness ==
    /\ Planned
    /\ Len(solvers) = 2
    /\ solvers[1].depends_on = {}
    /\ solvers[2].depends_on = {"c"}
    /\ result.err.kind = "UnresolvedDependency"
    /\ result.err.solver = "b"
    /\ result.err.detail = "c"

\* The (plugin, missing dependency) pairs an unresolved-dependency error lists:
\* "Solver '<solver>' depends on unknown solver '<dep>'".
ReportedPairs(e) == {<<e.solver, e.detail>>}

\* C6 as stated: the error lists every offending pair at once.
C6_EveryOffendingPairListed ==
    (Planned /\ ~Resolvable) =>
        /\ result.err.kind = "UnresolvedDependency"
        /\ ReportedPairs(result.err) = OffendingPairs

\* The first registered descriptor that has an unregistered dependency.
FirstOffender ==
    LET bad == {i \in 1..Len(solvers) : ~(solvers[i].depends_on \subseteq Registered)}
    IN  solvers[CHOOSE k \in bad : \A m \in bad : k <= m]

\* C6 amended: the error lists exactly one offending pair, the first found: a
\* missing dependency of the earliest registered descriptor that has one.
C6_FirstOffendingPairOnly ==
    (Planned /\ ~Resolvable) =>
        /\ result.err.kind = "UnresolvedDependency"
        /\ Cardinality(ReportedPairs(result.err)) = 1
        /\ result.err.solver = FirstOffender.name
        /\ result.err.detail \in FirstOffender.depends_on \ Registered

\* C6 witness: two descriptors each miss a dependency and planning has failed.
C6_Witness ==
    /\ Planned
    /\ Len(solvers) = 2
    /\ Cardinality(OffendingPairs) = 2
    /\ \A i \in 1..2 : "c" \in solvers[i].depends_on
    /\ result.err.kind = "UnresolvedDependency"

\* C7: the reported cycle path is the chain from the revisited plugin back to
\* itself: it starts and ends with it, each next name is a dependency of the
\* name before it, and no other name occurs twice.
C7_PathIsExactCycle ==
    (Planned /\ result.err.kind = "CircularDependency") =>
        LET p == result.err.path
        IN  /\ Len(p) >= 2
            /\ p[1] = result.err.solver
            /\ p[Len(p)] = result.err.solver
            /\ \A i \in 1..(Len(p) - 1) : p[i + 1] \in DependsOn(p[i])
            /\ \A i, j \in 1..(Len(p) - 1) : p[i] = p[j] => i = j
----------------------------------------------------------------------------
(* Batch execution properties (checked under Spec). *)

\* An execute_all call with the given stop_on_error, running or just ended.
InExecuteAll(stop_on_error) == call.op = "execute_all" /\ call.stop = stop_on_error

\* The errors get_execution_order may raise.
PlanningErrors == {"NotDiscovered", "UnresolvedDependency", "CircularDependency", "KeyError"}

\* The plan without the solvers whose solve() raised in this call.
PlanWithoutFailed == SelectSeq(call.plan, LAMBDA n : n \notin Range(call.failed))

\* C8: in execute_all with stop_on_error=true, once a plugin's execute has
\* failed the call has ended with the ExecutionError naming that plugin, the
\* plugins invoked are the plan up to and including it (none after it), and
\* the history is the history before the call followed by exactly the plan
\* names before it.
C8_StopOnErrorLeavesPrefix ==
    (InExecuteAll(TRUE) /\ call.failed # <<>>) =>
        LET k == Len(call.invoked)
        IN  /\ call.pc = "done"
            /\ result.op = "execute_all"
            /\ result.err.kind = "Execution"
            /\ result.err.solver = call.plan[k]
            /\ result.err.detail \in Messages
            /\ call.failed = <<call.plan[k]>>
            /\ call.invoked = SubSeq(call.plan, 1, k)
            /\ call.attempted = call.invoked
            /\ call.errors = <<>>
            /\ execution_history = call.hist0 \o SubSeq(call.plan, 1, k - 1)

\* C8 witness: a plan of three, a non-empty history before the call, the
\* second plugin's execute failed under stop_on_error=true.
C8_Witness ==
    /\ InExecuteAll(TRUE)
    /\ call.pc = "done"
    /\ result.err.kind = "Execution"
    /\ Len(call.plan) = 3
    /\ result.err.solver = call.plan[2]
    /\ call.hist0 # <<>>
    /\ execution_history = Append(call.hist0, call.plan[1])

\* C9: when execute_all with stop_on_error=false has ended, every plugin of
\* the plan has been attempted, whatever failures earlier plugins produced.
C9_EveryPluginAttempted ==
    (InExecuteAll(FALSE) /\ call.pc = "done") => call.attempted = call.plan

\* C10: execute_all with stop_on_error=false raises nothing while it runs; if
\* some plugin's execute failed it ends, with every plugin attempted, in the
\* one aggregate error listing exactly the failed plugins with their messages,
\* and the history is the prior history followed by the plugins that did not
\* fail, in plan order; if nothing failed it returns without error.
C10_AggregateAfterLastPlugin ==
    InExecuteAll(FALSE) =>
        /\ call.pc = "running" => result.op = "running"
        /\ (call.pc = "done" /\ call.failed # <<>>) =>
              /\ result.err.kind = "AggregateExecution"
              /\ call.attempted = call.plan
              /\ Len(result.err.failures) = Len(call.failed)
              /\ \A i \in 1..Len(call.failed) :
                    /\ result.err.failures[i][1] = call.failed[i]
                    /\ result.err.failures[i][2] \in Messages
              /\ execution_history = call.hist0 \o PlanWithoutFailed
        /\ (call.pc = "done" /\ call.failed = <<>> /\ call.invoked = call.attempted
              /\ result.err.kind \notin PlanningErrors) =>
              /\ result.err.kind = "none"
              /\ execution_history = call.hist0 \o call.plan

\* Every instantiation of the call succeeded (no factory raised).
NoFactoryFailure == call.invoked = call.attempted

\* C9 and C10 hold of every call in which no factory raises.
BatchWithoutFactoryFailure ==
    (InExecuteAll(FALSE) /\ call.pc = "done" /\ NoFactoryFailure
        /\ result.err.kind \notin PlanningErrors) =>
        /\ call.attempted = call.plan
        /\ call.failed # <<>> =>
              /\ result.err.kind = "AggregateExecution"
              /\ [i \in 1..Len(result.err.failures) |-> result.err.failures[i][1]] = call.failed
              /\ execution_history = call.hist0 \o PlanWithoutFailed
        /\ call.failed = <<>> => result.err.kind = "none"

----------------------------------------------------------------------------
(* Vocabulary of the manager properties. *)

\* A batch call that got its order of execution: it is in its loop, or it
\* ended with something else than an error of its preparation.
BatchPlanned == call.pc = "running" \/ (call.pc = "done" /\ result.err.kind \notin PlanningErrors)

\* The loop of the batch ran to its end.
LoopCompleted == call.pc = "done" /\ result.err.kind \in {"none", "AggregateExecution"}

\* s is the beginning of t.
IsPrefix(s, t) == Len(s) <= Len(t) /\ s = SubSeq(t, 1, Len(s))

\* The plugins of this call whose solve() returned, in the order they ran.
Succeeded == SelectSeq(call.invoked, LAMBDA n : n \notin Range(call.failed))

\* The registered names in the order of registry._solvers.
RegisteredSeq == [i \in 1..Len(solvers) |-> solvers[i].name]

----------------------------------------------------------------------------
(* execute_all (checked under Spec). *)

\* C11: execute_all takes the order get_execution_order returns, which lists
\* every registered plugin exactly once, and calls the plugins one at a time
\* in exactly that order: at every moment the plugins called so far are the
\* beginning of the plan, one per iteration; when the loop has run to its end
\* every plugin of the plan was invoked exactly once, and when all succeeded
\* the history is the history before the call followed by the plan.
C11_ExecuteAllFollowsPlan ==
    (call.op = "execute_all" /\ BatchPlanned) =>
        /\ execution_order = {call.plan}
        /\ IsPermutationOfRegistered(call.plan)
        /\ IsPrefix(call.attempted, call.plan)
        /\ IsPrefix(call.invoked, call.attempted)
        /\ call.pc = "running" => Len(call.attempted) = call.idx - 1
        /\ LoopCompleted => call.invoked = call.plan
        /\ (call.pc = "done" /\ result.err.kind = "none") =>
              execution_history = call.hist0 \o call.plan

\* C11 witness: the plan b, c, a differs from the registration order a, b, c;
\* execute_all has run it without error on top of an earlier history.
C11_Witness ==
    /\ call.op = "execute_all"
    /\ call.pc = "done"
    /\ result.err.kind = "none"
    /\ RegisteredSeq = <<"a", "b", "c">>
    /\ call.plan = <<"b", "c", "a">>
    /\ call.hist0 # <<>>
    /\ execution_history = call.hist0 \o <<"b", "c", "a">>

----------------------------------------------------------------------------
(* execute_subset (checked under SpecSubset). *)

\* C12: execute_subset with respect_order=true executes the full execution
\* order filtered down to the requested names, whatever the order of the
\* request: the plugins called so far are the beginning of that filtered
\* order, a requested dependency stands before its requested dependent, and
\* when the loop has run to its end exactly the filtered order was invoked.
C12_SubsetFollowsPlan ==
    (call.op = "execute_subset" /\ call.respect /\ BatchPlanned) =>
        \E o \in execution_order :
            /\ call.plan = SelectSeq(o, LAMBDA s : s \in Range(call.request))
            /\ Range(call.plan) = Range(call.request)
            /\ \A p, q \in Range(call.request) :
                  (q \in DependsOn(p) /\ q # p) => IndexOf(call.plan, q) < IndexOf(call.plan, p)
            /\ IsPrefix(call.attempted, call.plan)
            /\ IsPrefix(call.invoked, call.attempted)
            /\ LoopCompleted => call.invoked = call.plan

\* C12 witness: a depends on c; a, c was requested and c, a was invoked.
C12_Witness ==
    /\ call.op = "execute_subset"
    /\ call.respect
    /\ call.pc = "done"
    /\ result.err.kind = "none"
    /\ call.request = <<"a", "c">>
    /\ "c" \in DependsOn("a")
    /\ call.invoked = <<"c", "a">>

\* C13: execute_subset with respect_order=false on registered names executes
\* the request as it stands, repeated names and orders against the
\* dependencies included, and never plans: no planning error is raised (the
\* only registry error left is that of get_solver_class on a registry whose
\* discovery failed on a candidate), the
\* plugins called so far are the beginning of the request, when the loop has
\* run to its end the invoked sequence is the request element by element, and
\* when all succeeded the history is extended by the request.
C13_SubsetAsRequested ==
    (call.op = "execute_subset" /\ ~call.respect
        /\ Range(call.request) \subseteq Registered) =>
        /\ result.err.kind \in {"none", "Execution", "Instantiation", "AggregateExecution",
                                 "NotDiscovered"}
        /\ call.plan = call.request
        /\ IsPrefix(call.attempted, call.request)
        /\ IsPrefix(call.invoked, call.attempted)
        /\ LoopCompleted => call.invoked = call.request
        /\ (call.pc = "done" /\ result.err.kind = "none") =>
              execution_history = call.hist0 \o call.request

\* C13 witness: b depends on a; b, a was requested and ran in that order.
C13_Witness ==
    /\ call.op = "execute_subset"
    /\ ~call.respect
    /\ call.pc = "done"
    /\ result.err.kind = "none"
    /\ call.request = <<"b", "a">>
    /\ "a" \in DependsOn("b")
    /\ call.invoked = <<"b", "a">>
    /\ execution_history = call.hist0 \o <<"b", "a">>

\* C14: a call of execute_subset whose request holds an unregistered name, at
\* whatever position, ends at once with the KeyError that names the first
\* such name and cites the registered names; no plugin is called or
\* instantiated, and the history and the instance cache stay as they were.
C14_UnknownNameRejectedFirst ==
    [][(call.pc = "idle" /\ call'.op = "execute_subset"
          /\ \E i \in 1..Len(call'.request) : call'.request[i] \notin Registered) =>
            /\ call'.pc = "done"
            /\ result'.op = "execute_subset"
            /\ result'.err.kind = "KeyError"
            /\ result'.err.solver \in Range(call'.request) \ Registered
            /\ result'.err.path = RegisteredSeq
            /\ call'.attempted = <<>>
            /\ call'.invoked = <<>>
            /\ UNCHANGED <<solver_instances, execution_history, factory_log>>]_vars

\* C14 witness: the second requested name is unknown, the first is registered,
\* and plugins had been instantiated and executed before the call.
C14_Witness ==
    /\ call.op = "execute_subset"
    /\ call.pc = "done"
    /\ result.err.kind = "KeyError"
    /\ Len(call.request) = 2
    /\ call.request[1] \in Registered
    /\ call.request[2] \notin Registered
    /\ solver_instances # {}
    /\ execution_history # <<>>

----------------------------------------------------------------------------
(* The instance cache (checked under SpecManager). *)

\* C15 as stated: between two clearings of the cache the constructor of a
\* plugin is called at most once.
C15_FactoryCalledAtMostOnce == \A n \in Names : Len(factory_log[n]) <= 1

\* C15 amended: between two clearings the constructor of a plugin returns an
\* instance at most once, and once it has returned it is not called again:
\* the plugin is cached exactly when its last constructor call returned, so
\* every call that hands out or runs the plugin uses that one object; a
\* constructor call that raised caches nothing and may be followed by another.
C15_OneInstancePerClearing ==
    \A n \in Names :
        LET log == factory_log[n]
        IN  /\ \A i \in 1..Len(log) : log[i] => i = Len(log)
            /\ n \in solver_instances <=> (log # <<>> /\ log[Len(log)])
            /\ (result.op = "get_solver_instance" /\ result.err.kind = "none"
                  /\ result.value = <<n>>) => n \in solver_instances

\* C15 witness: a was instantiated and run by execute_all, then run again by
\* execute_solver, and get_solver_instance now returns it: one constructor
\* call in all.
C15_Witness ==
    /\ result.op = "get_solver_instance"
    /\ result.err.kind = "none"
    /\ result.value = <<"a">>
    /\ factory_log["a"] = <<TRUE>>
    /\ Len(solvers) = 2
    /\ execution_history = <<"a", "b", "a">>

----------------------------------------------------------------------------
(* reset and discover_solvers (checked under Spec). *)

\* The first execute_all on a manager as reset() leaves it: every plugin it
\* called was instantiated in this call, by one constructor call, and the
\* history holds exactly the plugins that ran to their end in this call.
FreshRunRebuilds ==
    (call.op = "execute_all" /\ call.fresh) =>
        /\ call.hist0 = <<>>
        /\ \A n \in Range(call.attempted) : Len(factory_log[n]) = 1
        /\ \A n \in Names \ Range(call.attempted) : factory_log[n] = <<>>
        /\ solver_instances = Range(call.invoked)
        /\ execution_history = Succeeded
        /\ (call.pc = "done" /\ result.err.kind = "none") => execution_history = call.plan

\* C16: reset() empties the instance cache and the history and leaves the
\* registered descriptors, the discovered flag and the cached order as they
\* were; the execute_all that follows instantiates every plugin it runs again
\* and its history is exactly the plugins executed in that run.
C16_ResetKeepsRegistry ==
    [][/\ (call.pc = "idle" /\ call'.op = "reset") =>
            /\ solver_instances' = {}
            /\ execution_history' = <<>>
            /\ UNCHANGED <<solvers, discovered, execution_order, succeeded, other>>
       /\ FreshRunRebuilds']_vars

\* C16 witness: reset() on a manager with three registered plugins, a cached
\* order and a history.
C16_Witness ==
    /\ call.op = "reset"
    /\ call.hist0 # <<>>
    /\ Len(solvers) = 3
    /\ execution_order # {}
    /\ solver_instances = {}
    /\ execution_history = <<>>

\* C17: after a call of discover_solvers the instance cache and the history
\* are empty: nothing from before the call remains.
C17_DiscoverClearsManager ==
    call.op = "discover" => (solver_instances = {} /\ execution_history = <<>>)

----------------------------------------------------------------------------
(* execute_solver (checked under SpecOne). *)

\* C18: an execute_solver that returns has invoked the plugin and leaves the
\* history it found with exactly one more entry, the plugin's name, at its
\* end, also when the name is in the history already; an execute_solver that
\* raises leaves the history as it found it. The history is therefore the
\* sequence of the successful invocations in their order.
C18_SuccessAppendsName ==
    call.op = "execute_solver" =>
        /\ result.err.kind = "none" =>
              /\ call.invoked = call.plan
              /\ execution_history = Append(call.hist0, call.plan[1])
        /\ result.err.kind # "none" => execution_history = call.hist0

\* C18 witness: the second successful execution of a.
C18_Witness ==
    /\ call.op = "execute_solver"
    /\ result.err.kind = "none"
    /\ call.hist0 = <<"a">>
    /\ execution_history = <<"a", "a">>

\* C19: when the plugin's solve raises during execute_solver the call raises
\* the execution error that carries the plugin's name and the message of what
\* was raised (its cause); the history is as before the call and the plugin's
\* instance is in the cache.
C19_FailureIsWrapped ==
    (call.op = "execute_solver" /\ call.raised # <<>>) =>
        /\ result.err.kind = "Execution"
        /\ result.err.solver = call.plan[1]
        /\ result.err.detail = call.raised[1]
        /\ execution_history = call.hist0
        /\ call.plan[1] \in solver_instances

\* C19 witness: b raised m2 in its first execution, after a had run.
C19_Witness ==
    /\ call.op = "execute_solver"
    /\ call.plan = <<"b">>
    /\ call.raised = <<"m2">>
    /\ result.err.kind = "Execution"
    /\ factory_log["b"] = <<TRUE>>
    /\ execution_history = <<"a">>

\* C20: execute_solver with validate_dependencies=true invokes solve if and
\* only if the plugin's validate_dependencies returned the empty list; when
\* it returned a non-empty list the call fails before solve is invoked and
\* the history is unchanged.
C20_ExecutesIffNoDeficiency ==
    (call.op = "execute_solver" /\ call.validated) =>
        /\ call.invoked # <<>> <=> call.report = <<>>
        /\ call.report # <<>> =>
              /\ result.err.kind = "UnsatisfiedDependencies"
              /\ execution_history = call.hist0

----------------------------------------------------------------------------
(* Discovery, queries and the objects handed in and out. *)

\* C27: when the constructor of a plugin raises inside get_solver_instance,
\* the call raises the instantiation error naming that plugin, caches
\* nothing and leaves the instance cache and the execution history as they
\* were; a name that is registered and not cached has its constructor called
\* by every get_solver_instance, so also by the one after a failure.
C27_FactoryFailureIsWrapped ==
    [][(call.pc = "idle" /\ call'.op = "get_solver_instance") =>
            LET n == call'.plan[1]
                called == Len(factory_log'[n]) = Len(factory_log[n]) + 1
            IN  /\ (called /\ ~factory_log'[n][Len(factory_log'[n])])
                      <=> result'.err.kind = "Instantiation"
                /\ result'.err.kind = "Instantiation" =>
                      /\ result'.err.solver = n
                      /\ n \notin solver_instances'
                      /\ solver_instances' = solver_instances
                      /\ execution_history' = execution_history
                /\ (discovered /\ n \in Registered /\ n \notin solver_instances) => called]_vars

\* A constructor of "b" has raised after "a" was executed: the error names
\* "b", "b" is not cached and the history still holds "a".
C27_Witness ==
    /\ result.op = "get_solver_instance"
    /\ result.err.kind = "Instantiation"
    /\ result.err.solver = "b"
    /\ "b" \notin solver_instances
    /\ execution_history = <<"a">>

\* C28: the planner is deterministic: whatever order the depends_on sets are
\* iterated in, planning the registered descriptors gives the cached order.
C28_PlanIndependentOfSetOrder ==
    \A o \in execution_order : \A h \in SetOrders :
        LET t == CalculateExecutionOrder(solvers, discovered, h)
        IN  t.err.kind = "none" => t.execution_order = o

\* The names the candidates of the discover_solvers call declare.
DeclaredNames == {call.request[i].name : i \in 1..Len(call.request)}

\* C24: after a discover_solvers that returned, the registered descriptors
\* are exactly those the candidates of the call declare: nothing registered
\* before the call remains in the store or appears in the cached plan.
C24_DiscoverReplacesDescriptors ==
    (call.op = "discover" /\ result.err.kind = "none") =>
        /\ Range(solvers) = Range(call.request)
        /\ Registered = DeclaredNames
        /\ \A o \in execution_order : Range(o) = DeclaredNames

\* A discovery of "a" alone has returned on a registry that held "a", "b"
\* and "c": only "a" is registered and planned.
C24_Witness ==
    /\ call.op = "discover"
    /\ result.err.kind = "none"
    /\ call.names0 = <<"a", "b", "c">>
    /\ Registered = {"a"}
    /\ execution_order = {<<"a">>}

\* C25: a discover_solvers that fails on a candidate names that candidate and
\* leaves none of the call's candidates in the descriptor store.
C25_FailedDiscoveryRegistersNothing ==
    (call.op = "discover" /\ result.err.kind = "Load") =>
        /\ result.err.solver \in DeclaredNames
        /\ solvers = <<>>

\* C26 (as the code has it): discover_solvers plans as its last step. Once
\* every candidate is registered, the call returns with the plan cached, or
\* raises the planning error (unresolved dependency, cycle) and caches
\* nothing; it raises exactly when the registered descriptors cannot be
\* planned.
C26_DiscoverPlans ==
    (call.op = "discover" /\ discovered) =>
        /\ result.err.kind = "none" =>
              \E o \in execution_order :
                  IsPermutationOfRegistered(o) /\ DependenciesPrecede(o)
        /\ result.err.kind # "none" =>
              /\ result.err.kind \in {"UnresolvedDependency", "CircularDependency"}
              /\ execution_order = {}
        /\ result.err.kind = "UnresolvedDependency" <=> ~Resolvable
        /\ result.err.kind = "CircularDependency" <=> (Resolvable /\ HasCycle)

\* A discover_solvers of two plugins that depend on each other has raised the
\* cycle error and left no plan.
C26_Witness ==
    /\ call.op = "discover"
    /\ result.err.kind = "CircularDependency"
    /\ Registered = {"a", "b"}
    /\ discovered
    /\ execution_order = {}

\* C26 (as stated): discover_solvers only registers; it computes no plan and
\* raises no planning error.
C26_DiscoverDoesNotPlan ==
    call.op = "discover" =>
        /\ execution_order = {}
        /\ result.err.kind \notin {"UnresolvedDependency", "CircularDependency"}

\* C29: every solve() of a call is handed the object the caller passed, and
\* a call that returns hands that same object back, whatever the plugins
\* return from solve().
C29_CallerModelThroughout ==
    call.op \in {"execute_solver", "execute_all", "execute_subset"} =>
        /\ \A i \in 1..Len(call.received) : call.received[i] = CallerModel
        /\ (call.pc = "done" /\ result.err.kind = "none") => result.value = <<CallerModel>>

\* The orders the planner may give for the registered descriptors.
PlansOfRegistered ==
    {CalculateExecutionOrder(solvers, TRUE, h).execution_order :
        h \in {g \in SetOrders : CalculateExecutionOrder(solvers, TRUE, g).err.kind = "none"}}

\* C21: the computed order is memoized. No call but discover_solvers changes
\* a cached order (not reset, not execute_all, not a query), and
\* get_execution_order returns the cached one, so calls with no discovery in
\* between return equal sequences; what it returns is a plan of the
\* descriptors registered now, so after a discovery it is a plan of the new
\* descriptors.
C21_OrderIsMemoized ==
    [][/\ (call'.op # "discover" /\ execution_order # {}) => execution_order' = execution_order
       /\ (call.pc = "idle" /\ call'.op = "get_execution_order"
             /\ result'.err.kind = "none") =>
                /\ execution_order' = {result'.value}
                /\ result'.value \in PlansOfRegistered]_vars

\* get_execution_order has returned the plan b, c, a of the descriptors
\* discovered last, on a manager that has executed them.
C21_Witness ==
    /\ call.op = "get_execution_order"
    /\ result.err.kind = "none"
    /\ result.value = <<"b", "c", "a">>
    /\ execution_history = <<"b", "c", "a">>

\* C22: get_execution_order and get_execution_history return copies: each
\* returns the items of the stored list, and a caller that appends to,
\* removes from or reorders the list it got leaves the cached order and the
\* stored history as they were, so the next query returns what the last
\* returned.
C22_GettersReturnCopies ==
    [][/\ (call.pc = "idle" /\ call'.op = "get_execution_order"
             /\ result'.err.kind = "none") => execution_order' = {result'.value}
       /\ (call.pc = "idle" /\ call'.op = "get_execution_history") =>
             result'.value = execution_history'
       /\ call'.op = "caller_mutates" /\ call.op # "caller_mutates" =>
             /\ result'.value # result.value
             /\ execution_order' = execution_order
             /\ execution_history' = execution_history]_vars

\* The caller has reordered the history list it got; the stored history is
\* still a, b, c.
C22_Witness ==
    /\ call.op = "caller_mutates"
    /\ call.plan = <<"a", "b", "c">>
    /\ result.value = <<"c", "b", "a">>
    /\ execution_history = <<"a", "b", "c">>

\* The queries that need a discovered registry.
Queries == RegistryQueries \cup {"get_execution_order"}

\* C23: as long as no discover_solvers has returned without raising, every
\* query of the registry raises the not-discovered error and changes
\* nothing.
C23_QueriesNeedDiscovery ==
    [][(~succeeded /\ call.pc = "idle" /\ call'.op \in Queries) =>
            /\ result'.err.kind = "NotDiscovered"
            /\ UNCHANGED <<solvers, execution_order, discovered, solver_instances,
                           execution_history>>]_vars

\* C30 (as the code has it): a call on one manager leaves the instance cache
\* and the execution history of the other manager as they were, and, unless
\* the other manager was constructed with the registry of the first, its
\* descriptors, discovered flag and cached plan too.
C30_IndependentUnlessRegistryGiven ==
    [][call.pc = "idle" =>
            /\ other'.solver_instances = other.solver_instances
            /\ other'.execution_history = other.execution_history
            /\ ~other.given => OtherRegistry' = OtherRegistry]_vars

\* A discovery on one manager has returned while the other manager, which has
\* a registry of its own, holds the three descriptors it discovered, the
\* instance of "a" and the history of its execution.
C30_Witness ==
    /\ call.op = "discover"
    /\ result.err.kind = "none"
    /\ ~other.given
    /\ Len(other.solvers) = 3
    /\ Len(solvers) = 1
    /\ other.solver_instances = {"a"}
    /\ other.execution_history = <<"a">>

\* C30 (as stated): a call on one manager leaves the descriptors, the cached
\* plan, the instance cache and the execution history of any other manager
\* as they were.
C30_ManagersShareNothing ==
    [][call.pc = "idle" =>
            /\ other'.solver_instances = other.solver_instances
            /\ other'.execution_history = other.execution_history
            /\ OtherRegistry' = OtherRegistry]_vars

----------------------------------------------------------------------------
(* Protocol validation and the model's solver_info. *)

\* The required attributes candidate i of the last discover_solvers lacks.
MissingAttrs(i) == {attr \in Range(RequiredAttrs) : attr \notin call.attrs[i]}

\* The first candidate of the last discover_solvers that lacks an attribute.
FirstLacking ==
    {i \in 1..Len(call.attrs) :
        MissingAttrs(i) # {} /\ \A j \in 1..(i - 1) : MissingAttrs(j) = {}}

C32_InfoOfRegisteredName ==
    (call.op = "solver_info" /\ call.pc = "done") =>
        IF call.plan[1] \in RegisteredNames(solvers)
        THEN /\ result.err.kind = "none"
             /\ DOMAIN result.value[1] = {"name", "version", "priority", "depends_on",
                                          "description"}
        ELSE result.err.kind = "ValueError"

----------------------------------------------------------------------------
(* Order of the planner's checks, and its termination. *)

\* C33: the existence of every dependency is checked before the traversal
\* starts: planning a set that has both an unregistered dependency and a
\* cycle fails with the unresolved-dependency error, a circular-dependency
\* error is raised for sets without unregistered dependencies only, and the
\* traversal never fails on the lookup of an unregistered name.
C33_ExistenceCheckedBeforeTraversal ==
    Planned =>
        /\ (HasCycle /\ ~Resolvable) => result.err.kind = "UnresolvedDependency"
        /\ (result.err.kind = "CircularDependency") => Resolvable
        /\ result.err.kind # "KeyError"

\* a and b depend on each other and a depends on the unregistered c as well;
\* planning has reported the unregistered dependency.
C33_Witness ==
    /\ Planned
    /\ Len(solvers) = 2
    /\ solvers[1].depends_on = {"b", "c"}
    /\ solvers[2].depends_on = {"a"}
    /\ HasCycle
    /\ result.err.kind = "UnresolvedDependency"
    /\ result.err.detail = "c"

----------------------------------------------------------------------------
(* Batches: what is executed, how often, and what the history records. *)

\* How often name n occurs in the sequence s.
Occurrences(s, n) == Cardinality({i \in 1..Len(s) : s[i] = n})

Unplannable == ~Resolvable \/ HasCycle

\* C38: get_execution_order never returns a stale or partial plan. An order
\* it returns, and any order the registry has cached, lists every registered
\* name once with dependencies first; while the discovered descriptors cannot
\* be planned no order is cached, get_execution_order and execute_all end in
\* the planning error each time they are called, and execute_all calls no
\* plugin and leaves the history alone.
C38_NoStaleOrPartialOrder ==
    /\ \A o \in execution_order : IsPermutationOfRegistered(o) /\ DependenciesPrecede(o)
    /\ (call.op = "get_execution_order" /\ call.pc = "done" /\ result.err.kind = "none") =>
          /\ execution_order = {result.value}
          /\ ~Unplannable
    /\ (discovered /\ Unplannable) =>
          /\ execution_order = {}
          /\ (call.op \in {"get_execution_order", "execute_all"}) =>
                /\ call.pc = "done"
                /\ result.err.kind \in {"UnresolvedDependency", "CircularDependency"}
                /\ call.attempted = <<>>
                /\ (call.op = "execute_all") => execution_history = call.hist0

\* execute_all has failed with the cycle of the descriptors discovered last,
\* on a manager that had executed plugins before; nothing was called.
C38_Witness ==
    /\ call.op = "execute_all"
    /\ call.pc = "done"
    /\ result.err.kind = "CircularDependency"
    /\ execution_order = {}
    /\ call.hist0 # <<>>
    /\ call.attempted = <<>>
    /\ execution_history = call.hist0

\* C35: no plugin reaches a terminal state and nothing is retried. Whatever
\* was executed or has failed before, an execute_solver on a registered name
\* of a discovered registry that got its instance and passed the dependency
\* check it was asked for has called solve() once, and no execute_solver
\* calls it more than once; a batch calls execute_solver along its plan, one
\* call per position, so a plugin whose solve() raised is not called again
\* for that position and no plugin runs more often than the plan lists it.
C35_NoTerminalStateNoRetry ==
    /\ (call.op = "execute_solver" /\ call.pc = "done") =>
          /\ call.attempted = call.plan
          /\ Len(call.invoked) <= 1
          /\ (discovered /\ call.plan[1] \in Registered
                /\ result.err.kind \notin {"Instantiation", "UnsatisfiedDependencies"}) =>
                /\ call.invoked = call.plan
                /\ result.err.kind \in {"none", "Execution"}
    /\ (call.op \in {"execute_all", "execute_subset"}) =>
          /\ IsPrefix(call.attempted, call.plan)
          /\ Len(call.attempted) <= call.idx
          /\ (call.pc = "running") => Len(call.attempted) = call.idx - 1
          /\ \A n \in Names :
                /\ Occurrences(call.invoked, n) <= Occurrences(call.attempted, n)
                /\ Occurrences(call.failed, n) <= Occurrences(call.invoked, n)

\* a has run before and a constructor call for it has failed before; the
\* execute_solver on it now has called solve() once, and solve() raised.
C35_Witness ==
    /\ call.op = "execute_solver"
    /\ call.pc = "done"
    /\ call.plan = <<"a">>
    /\ "a" \in Range(call.hist0)
    /\ FactoryFailures("a") # {}
    /\ call.invoked = <<"a">>
    /\ result.err.kind = "Execution"

\* C36: the history is append-only while plugins run. Every step either
\* leaves the history as it is, or is a step of execute_solver, execute_all
\* or execute_subset that appends one name to its end, or is a reset, a
\* discover_solvers or a clear_execution_history that empties it; the
\* history never loses or changes an entry in any other way.
C36_HistoryAppendOnly ==
    [][\/ execution_history' = execution_history
       \/ /\ call'.op \in {"execute_solver", "execute_all", "execute_subset"}
          /\ \E n \in Names : execution_history' = Append(execution_history, n)
       \/ /\ call'.op \in {"reset", "discover", "clear_execution_history"}
          /\ execution_history' = <<>>]_vars

\* clear_execution_history has emptied a history of two or more entries and
\* has left the instances cached.
C36_Witness ==
    /\ call.op = "clear_execution_history"
    /\ Len(call.hist0) >= 2
    /\ execution_history = <<>>
    /\ solver_instances # {}

\* C37: in every state the manager's calls reach, every name in the instance
\* cache is a registered name, and a get_solver_instance or execute_solver
\* that returned was called for a registered name: no instance of a
\* descriptor set that has been replaced is served or run.
C37_InstancesOfRegisteredOnly ==
    /\ solver_instances \subseteq Registered
    /\ (call.op \in {"get_solver_instance", "execute_solver"} /\ call.pc = "done"
          /\ result.err.kind = "none") => call.plan[1] \in Registered

\* A batch over every registered plugin in plan order: an execute_all, or an
\* execute_subset asked with respect_order=true for the registered names.
WholeBatch ==
    \/ call.op = "execute_all"
    \/ (call.op = "execute_subset" /\ call.respect /\ Range(call.request) = Registered)

\* The (plugin, message) pairs of the plugins whose solve() raised in this
\* call, in the order they ran.
Collected == [i \in 1..Len(call.failed) |-> <<call.failed[i], call.raised[i]>>]

\* C34: execute_subset asked for all registered names with respect_order=true
\* behaves as execute_all does. Both answer to one description that does not
\* mention which of the two was called: before discovery and on descriptors
\* that cannot be planned they raise the error of get_execution_order and
\* call nothing; otherwise their plan is the cached execution order, the
\* plugins called are the beginning of that plan, the history is the prior
\* history followed by the plugins that returned, and the call ends with the
\* instantiation error of the plugin it stopped at, with the execution error
\* of the first failing plugin under stop_on_error, with the one combined
\* error listing every failed plugin after the whole plan, or with the model.
C34_SubsetOfAllIsExecuteAll ==
    WholeBatch =>
        /\ ~discovered =>
              /\ call.pc = "done"
              /\ result.err.kind = "NotDiscovered"
              /\ call.attempted = <<>>
        /\ (discovered /\ Unplannable) =>
              /\ call.pc = "done"
              /\ result.err.kind \in {"UnresolvedDependency", "CircularDependency"}
              /\ call.attempted = <<>>
        /\ (discovered /\ ~Unplannable) =>
              /\ execution_order = {call.plan}
              /\ IsPrefix(call.attempted, call.plan)
              /\ IsPrefix(call.invoked, call.attempted)
              /\ execution_history = call.hist0 \o Succeeded
              /\ (call.pc = "done") =>
                    IF call.invoked # call.attempted
                    THEN /\ result.err.kind = "Instantiation"
                         /\ result.err.solver = call.attempted[Len(call.attempted)]
                    ELSE IF call.failed # <<>> /\ call.stop
                    THEN /\ result.err = Error("Execution", call.failed[1], call.raised[1],
                                               <<>>, <<>>)
                         /\ call.failed = <<call.attempted[Len(call.attempted)]>>
                    ELSE /\ call.attempted = call.plan
                         /\ IF call.failed # <<>>
                            THEN result.err = AggregateError(Collected)
                            ELSE /\ result.err.kind = "none"
                                 /\ result.value = <<call.model>>

\* execute_subset was asked for a, b, c with respect_order=true on descriptors
\* planned as b, c, a; c failed, and the call ended after a with the combined
\* error, b and a added to the history.
C34_Witness ==
    /\ call.op = "execute_subset"
    /\ call.respect
    /\ call.request = <<"a", "b", "c">>
    /\ call.plan = <<"b", "c", "a">>
    /\ call.pc = "done"
    /\ call.failed = <<"c">>
    /\ result.err.kind = "AggregateExecution"
    /\ execution_history = call.hist0 \o <<"b", "a">>

\* The planning call has ended.
PlanningEnded == call.op = "calculate" /\ call.pc = "done"

\* C39: planning terminates for every descriptor set, cycles,
\* self-dependencies and unregistered names included. Every planning call
\* ends; it ends with a planning error and nothing cached or with an order
\* of all registered names that is cached; while it runs no name is appended
\* to the order twice and the recursion is never deeper than the number of
\* registered plugins; and it ends as the recursive definition of the planner
\* says.
C39_PlanningTerminates ==
    /\ <>PlanningEnded
    /\ [](\A n \in Names : Occurrences(call.traversal.execution_order, n) <= 1)
    /\ [](Len(call.traversal.stack) <= Len(solvers))
    /\ [](PlanningEnded =>
            /\ result.err = CalculateExecutionOrder(solvers, discovered, call.traversal.h).err
            /\ \/ /\ result.err.kind \in {"UnresolvedDependency", "CircularDependency"}
                  /\ execution_order = {}
               \/ /\ result.err.kind = "none"
                  /\ IsPermutationOfRegistered(call.traversal.execution_order)
                  /\ execution_order = {call.traversal.execution_order}
                  /\ execution_order =
                        {CalculateExecutionOrder(solvers, discovered,
                                                 call.traversal.h).execution_order})

\* Planning has ended with the circular-dependency error on three plugins of
\* which a depends on itself and c on a and b.
C39_Witness ==
    /\ PlanningEnded
    /\ Len(solvers) = 3
    /\ "a" \in DependsOn("a")
    /\ DependsOn("c") = {"a", "b"}
    /\ result.err.kind = "CircularDependency"

====
